---- MODULE Spec2Model ----
(***************************************************************************)
(* Host-side control plane of the GPU ray tracer (src/src/main.rs).        *)
(*                                                                         *)
(* The program state is the `State` struct owned by `App`; its methods are *)
(* pure operators from a State record to a State record, and the winit     *)
(* callbacks (window_event, device_event) are the actions.                 *)
(*                                                                         *)
(* Numbers.  f32 values are kept in fixed point:                           *)
(*   focal_distance, aperture_radius : hundredths        (4.0  -> 400)     *)
(*   yaw, pitch                      : micro-radians                       *)
(*   mouse_delta                     : pixels                              *)
(*   dt                              : milliseconds                        *)
(*   camera_pos, forward, right, up  : thousandths       (1.0  -> 1000)    *)
(*                                                                         *)
(* The window.  `redraw_pending` is the redraw request that the Window   *)
(* owned by State holds: set by request_redraw and for the first frame of  *)
(* a new window, cleared when RedrawRequested is delivered.                *)
(*                                                                         *)
(* Textures.  A texture is [id, width, height, written].  `id` is the      *)
(* identity of the GPU object (a view made from a texture carries the id   *)
(* of its texture); `written` says whether a compute dispatch has been     *)
(* submitted with the texture bound as a write target since it was         *)
(* created.  create_texture hands out the smallest id that is not in use,  *)
(* where the ids in use are those of the objects alive when the running    *)
(* callback began plus those created since: a texture created in a         *)
(* callback is distinct from every texture that existed before it.         *)
(*                                                                         *)
(* Observation.  State carries one field that the program does not have:   *)
(* `calls`, the State methods called since the running callback began.     *)
(* When the callback returns they are moved to `event`.                    *)
(***************************************************************************)
EXTENDS Integers, Sequences, FiniteSets, TLC

VARIABLES
    state,            \* App.state: the State struct
    exiting,          \* event_loop.exit() has been called
    event,            \* the callback that ran last: its input and what it did
    render_calls,     \* render() calls since the accumulation images were last recreated
    presented_calls,  \* those of them that presented a frame
    encoder,          \* the scene encoder of State::new: its input, position and output
    received,         \* sum of the mouse motion delivered with input unlocked since update last ran
    loader,           \* obj_parser::load_glb: its document, position and output
    world,            \* the World of generate_map: meshes and baked_meshes
    last_dispatch     \* the compute dispatch submitted last, in the runs that record it

vars == <<state, exiting, event, render_calls, presented_calls, encoder, received,
          loader, world, last_dispatch>>

\* The window and what runs in its callbacks.
window == <<state, exiting, event, render_calls, presented_calls, received, last_dispatch>>

\* The scene: what is loaded, baked and encoded before the window is shown.
assets == <<loader, world, encoder>>

----------------------------------------------------------------------------
(* Bounds of the model *)

MaxFrame == 2
MaxRenderCalls == 2
MaxSteps == 1
MaxMouse == 1
MaxTravel == 1
MaxPendingLook == 800
MaxMeshes == 3
MaxNodes == 2
MaxWorldMeshes == 4

(* Program constants *)

workgroup_size == 8
focal_distance_0 == 400
aperture_radius_0 == 5
key_step == 2
speed == 2
mouse_sensitivity == 2000
pitch_limit == 1560796

(* Inputs *)

KeyCodes ==
    {"Escape", "KeyL", "ArrowUp", "ArrowDown", "ArrowLeft", "ArrowRight",
     "KeyW", "KeyS", "KeyD", "KeyA", "Space", "ShiftLeft"}

\* Window sizes: minimized (a zero dimension) and two non-zero sizes.
Sizes ==
    {[width |-> 0, height |-> 0], [width |-> 0, height |-> 9], [width |-> 9, height |-> 0],
     [width |-> 8, height |-> 9], [width |-> 9, height |-> 16]}

\* The sizes of the window at the start of the runs about the keyboard: minimized
\* and not, at either read of window.inner_size().
InputSizes == {[width |-> 0, height |-> 9], [width |-> 9, height |-> 16]}

\* The sizes of the runs about consecutive dispatches.
ChainSizes == {[width |-> 8, height |-> 9]}

\* Outcomes of surface.get_current_texture().
SurfaceResults == {"Ok", "Timeout", "Outdated", "Lost"}

\* With the errors that the program only logs.
LoopSurfaceResults == SurfaceResults \cup {"OutOfMemory"}

MouseDeltas == {<<1, 0>>}

\* Vertical motion large enough to carry pitch to the clamp in two events.
LookDeltas == {<<0, 400>>, <<0, -400>>, <<1, 781>>}

Dts == {500}

----------------------------------------------------------------------------
(* Arithmetic helpers *)

Max(a, b) == IF a >= b THEN a ELSE b

Min(a, b) == IF a <= b THEN a ELSE b

Abs(a) == IF a >= 0 THEN a ELSE -a

\* Integer division truncating towards zero.
SDiv(a, b) == IF a >= 0 THEN a \div b ELSE -((-a) \div b)

\* Fault: only the upper limit is applied.
clamp_above(x, lo, hi) == IF x > hi THEN hi ELSE x

\* f32::clamp
clamp(x, lo, hi) == IF x < lo THEN lo ELSE IF x > hi THEN hi ELSE x

\* Integer square root: the r with r*r <= n < (r+1)*(r+1), bit by bit from 2^11 down.
SqrtBit(n, r, b) == IF (r + b) * (r + b) <= n THEN r + b ELSE r

ISqrt(n) ==
    LET r11 == SqrtBit(n, 0, 2048)
        r10 == SqrtBit(n, r11, 1024)
        r9  == SqrtBit(n, r10, 512)
        r8  == SqrtBit(n, r9, 256)
        r7  == SqrtBit(n, r8, 128)
        r6  == SqrtBit(n, r7, 64)
        r5  == SqrtBit(n, r6, 32)
        r4  == SqrtBit(n, r5, 16)
        r3  == SqrtBit(n, r4, 8)
        r2  == SqrtBit(n, r3, 4)
        r1  == SqrtBit(n, r2, 2)
    IN  SqrtBit(n, r1, 1)

\* sin and cos of an angle given in micro-radians, in thousandths (Taylor series).
SinM(a) ==
    LET x  == SDiv(a, 1000)
        x2 == (x * x) \div 1000
        t3 == -SDiv(x * x2, 6000)
        t5 == -SDiv(t3 * x2, 20000)
        t7 == -SDiv(t5 * x2, 42000)
        t9 == -SDiv(t7 * x2, 72000)
    IN  x + t3 + t5 + t7 + t9

CosM(a) ==
    LET x  == SDiv(a, 1000)
        x2 == (x * x) \div 1000
        c2 == -SDiv(1000 * x2, 2000)
        c4 == -SDiv(c2 * x2, 12000)
        c6 == -SDiv(c4 * x2, 30000)
        c8 == -SDiv(c6 * x2, 56000)
    IN  1000 + c2 + c4 + c6 + c8

\* Vec3A operations on vectors in thousandths.
VAdd(u, v) == <<u[1] + v[1], u[2] + v[2], u[3] + v[3]>>

VSub(u, v) == <<u[1] - v[1], u[2] - v[2], u[3] - v[3]>>

VScale(u, k) == <<SDiv(u[1] * k, 1000), SDiv(u[2] * k, 1000), SDiv(u[3] * k, 1000)>>

VCross(u, v) ==
    <<SDiv(u[2] * v[3] - u[3] * v[2], 1000),
      SDiv(u[3] * v[1] - u[1] * v[3], 1000),
      SDiv(u[1] * v[2] - u[2] * v[1], 1000)>>

VNormalize(u) ==
    LET len == ISqrt(u[1] * u[1] + u[2] * u[2] + u[3] * u[3])
    IN  <<SDiv(u[1] * 1000, len), SDiv(u[2] * 1000, len), SDiv(u[3] * 1000, len)>>

----------------------------------------------------------------------------
(* The device: texture creation *)

FreshId(used) == CHOOSE n \in 0..Cardinality(used) :
                    /\ n \notin used
                    /\ \A m \in 0..Cardinality(used) : m \notin used => n <= m

\* device.create_texture(&TextureDescriptor { size, .. })
create_texture(used, width, height) ==
    [id |-> FreshId(used), width |-> width, height |-> height, written |-> FALSE]

\* The camera basis of State::new and State::update.
forward_of(yaw, pitch) ==
    <<SDiv(SinM(yaw) * CosM(pitch), 1000), SDiv(CosM(yaw) * CosM(pitch), 1000), SinM(pitch)>>

world_up == <<0, 0, 1000>>

right_of(forward) == VNormalize(VCross(forward, world_up))

up_of(right, forward) == VNormalize(VCross(right, forward))

RECURSIVE SeqsUpTo(_, _)
\* The sequences over S of length at most n.
SeqsUpTo(S, n) ==
    IF n = 0 THEN {<<>>}
    ELSE LET shorter == SeqsUpTo(S, n - 1)
         IN  shorter \cup {Append(q, x) : q \in shorter, x \in S}

----------------------------------------------------------------------------
(* my3d_lib: Material *)

\* Material::default() and a second, emissive material.
default_material == [albedo |-> <<1000, 1000, 1000>>, emission |-> <<0, 0, 0>>, roughness |-> 1000]

----------------------------------------------------------------------------
(* obj_parser::load_glb                                                     *)
(*                                                                          *)
(* The glTF document is what gltf::import returns: its materials and its    *)
(* nodes, a node with its decomposed transform and, if it has a mesh, the   *)
(* primitives of the mesh.  An accessor that a primitive may lack comes     *)
(* with a flag (has_normals, has_indices, has_material).  Colours, factors, *)
(* positions, translation and scale are in thousandths; a rotation is a     *)
(* quaternion <<x, y, z, w>> in halves (1.0 -> 2).                          *)

\* A glTF material: base colour factor (RGBA), emissive factor, emissive strength if
\* the extension is present, roughness factor.
gltf_material(base, emissive, has_strength, strength, roughness) ==
    [base_color_factor |-> base, emissive_factor |-> emissive,
     has_emissive_strength |-> has_strength, emissive_strength |-> strength,
     roughness_factor |-> roughness]

\* A glTF primitive.
primitive(positions, has_normals, normals, has_indices, indices, has_material, material) ==
    [positions |-> positions, has_normals |-> has_normals, normals |-> normals,
     has_indices |-> has_indices, indices |-> indices,
     has_material |-> has_material, material |-> material]

\* A glTF node.
node(translation, rotation, scale, has_mesh, primitives) ==
    [translation |-> translation, rotation |-> rotation, scale |-> scale,
     has_mesh |-> has_mesh, primitives |-> primitives]

\* n positions, no two alike in any coordinate: x = base + index (in units), y and z
\* in halves and quarters of the index.
positions_along(n, base) == [i \in 1..n |-> <<(base + i - 1) * 1000, 500 * i, -250 * i>>]

\* The body of `for mat in gltf.materials()`.
load_material(mat) ==
    [albedo    |-> <<mat.base_color_factor[1], mat.base_color_factor[2],
                     mat.base_color_factor[3]>>,
     emission  |-> IF mat.has_emissive_strength
                   THEN VScale(mat.emissive_factor, mat.emissive_strength)
                   ELSE mat.emissive_factor,
     roughness |-> mat.roughness_factor]

\* Fault: no default material is substituted.
global_materials_as_declared(materials) ==
    [i \in 1..Len(materials) |-> load_material(materials[i])]

\* "Load global materials": the materials of the document in order, and
\* Material::default() if there is none.
global_materials_of(materials) ==
    IF Len(materials) = 0
    THEN <<default_material>>
    ELSE [i \in 1..Len(materials) |-> load_material(materials[i])]

\* A Face of load_glb: the normals are those of its three vertices, the edges are
\* left at zero.
loaded_face(i0, i1, i2, normals, material_idx) ==
    [indices      |-> <<i0, i1, i2>>,
     normals      |-> <<normals[i0 + 1], normals[i1 + 1], normals[i2 + 1]>>,
     material_idx |-> material_idx,
     edges        |-> <<<<0, 0, 0>>, <<0, 0, 0>>>>]

\* indices.chunks(3): consecutive groups of three, the last one shorter if the
\* length is not a multiple of three.
chunks_of_3(indices) ==
    [c \in 1..((Len(indices) + 2) \div 3) |->
        SubSeq(indices, 3 * c - 2, Min(3 * c, Len(indices)))]

\* for tri in indices.chunks(3) { if tri.len() < 3 { continue; } faces.push(..) }
indexed_faces(indices, normals, material_idx) ==
    LET whole == SelectSeq(chunks_of_3(indices), LAMBDA tri : ~(Len(tri) < 3))
    IN  [j \in 1..Len(whole) |->
            loaded_face(whole[j][1], whole[j][2], whole[j][3], normals, material_idx)]

\* Fault: the loop stops one vertex early.
past_last_triangle_early(i, len) == i + 3 >= len

\* if i + 2 >= mesh.vertices.len() { break; }
past_last_triangle(i, len) == i + 2 >= len

RECURSIVE non_indexed_faces(_, _, _, _)
\* for i in (i..len).step_by(3) { if i + 2 >= len { break; } faces.push(..) }
non_indexed_faces(i, len, normals, material_idx) ==
    IF i >= len \/ past_last_triangle(i, len)
    THEN <<>>
    ELSE <<loaded_face(i, i + 1, i + 2, normals, material_idx)>>
             \o non_indexed_faces(i + 3, len, normals, material_idx)

\* The body of `for primitive in mesh_gltf.primitives()`: the Mesh that is pushed.
load_primitive(nd, prim, global_materials) ==
    LET normals      == IF prim.has_normals THEN prim.normals
                        ELSE [i \in 1..Len(prim.positions) |-> <<0, 1000, 0>>]
        material_idx == IF prim.has_material THEN prim.material ELSE 0
    IN  [vertices  |-> prim.positions,
         faces     |-> IF prim.has_indices
                       THEN indexed_faces(prim.indices, normals, material_idx)
                       ELSE non_indexed_faces(0, Len(prim.positions), normals, material_idx),
         scale     |-> nd.scale,
         position  |-> nd.translation,
         rotation  |-> nd.rotation,
         materials |-> global_materials]

\* load_glb before its first loop.
loader_start(document) ==
    [pc               |-> "materials",
     document         |-> document,
     global_materials |-> <<>>,
     done             |-> 0,
     meshes           |-> <<>>]

\* The loop over gltf.materials() and the substitution of the default.
load_materials(ld) ==
    [ld EXCEPT !.pc = "nodes",
               !.global_materials = global_materials_of(ld.document.materials)]

\* One iteration of `for node in gltf.nodes()`: a Mesh for each primitive of the
\* node's mesh, none for a node without a mesh.
load_node(ld, nd) ==
    [ld EXCEPT !.done   = @ + 1,
               !.meshes = IF nd.has_mesh
                          THEN @ \o [k \in 1..Len(nd.primitives) |->
                                        load_primitive(nd, nd.primitives[k],
                                                       ld.global_materials)]
                          ELSE @]

\* load_glb returns `meshes`.
load_return(ld) == [ld EXCEPT !.pc = "done"]

RECURSIVE load_from(_)
\* load_glb run to its end.
load_from(ld) ==
    IF ld.pc = "materials" THEN load_from(load_materials(ld))
    ELSE IF ld.pc = "nodes" /\ ld.done < Len(ld.document.nodes)
    THEN load_from(load_node(ld, ld.document.nodes[ld.done + 1]))
    ELSE IF ld.pc = "nodes" THEN load_return(ld)
    ELSE ld

load_glb(document) == load_from(loader_start(document)).meshes

\* The documents load_glb is run on: no material or two, and up to MaxNodes nodes
\* out of: a node without a mesh; a turned and scaled node with an indexed primitive
\* of seven indices on five vertices; a node with two non-indexed primitives of six
\* and five vertices, the first with normals; a node whose primitive uses the second
\* material, with four indices; a turned and moved node whose primitive has two
\* vertices only, and so no face.
SampleMaterials ==
    {<<>>,
     <<gltf_material(<<800, 700, 600, 1000>>, <<0, 0, 0>>, FALSE, 0, 500),
       gltf_material(<<1000, 1000, 1000, 1000>>, <<1000, 500, 0>>, TRUE, 4000, 1000)>>}

SampleNodes ==
    {node(<<0, 0, 0>>, <<0, 0, 0, 2>>, <<1000, 1000, 1000>>, FALSE, <<>>),
     node(<<1000, 2000, 3000>>, <<1, 1, 1, 1>>, <<2000, 1000, -1000>>, TRUE,
          <<primitive(positions_along(5, 0), FALSE, <<>>,
                      TRUE, <<0, 1, 2, 2, 4, 3, 1>>, TRUE, 0)>>),
     node(<<0, 0, 0>>, <<0, 0, 0, 2>>, <<1000, 1000, 1000>>, TRUE,
          <<primitive(positions_along(6, 10), TRUE,
                      [i \in 1..6 |-> <<0, 0, 500 * i>>], FALSE, <<>>, FALSE, 0),
            primitive(positions_along(5, 20), FALSE, <<>>, FALSE, <<>>, FALSE, 0)>>),
     node(<<0, 0, -1000>>, <<2, 0, 0, 0>>, <<1000, 1000, 1000>>, TRUE,
          <<primitive(positions_along(4, 30), FALSE, <<>>, TRUE, <<3, 2, 1, 0>>, TRUE, 1)>>),
     node(<<0, 1000, 0>>, <<2, 0, 0, 0>>, <<1000, 1000, 1000>>, TRUE,
          <<primitive(positions_along(2, 40), FALSE, <<>>, FALSE, <<>>, FALSE, 0)>>)}

\* gltf::import has validated the document: a primitive refers to a material that
\* the document declares.
ValidDocument(document) ==
    \A i \in 1..Len(document.nodes) : \A k \in 1..Len(document.nodes[i].primitives) :
        document.nodes[i].primitives[k].has_material =>
            document.nodes[i].primitives[k].material < Len(document.materials)

Documents ==
    {document \in {[materials |-> materials, nodes |-> nodes] :
                      materials \in SampleMaterials, nodes \in SeqsUpTo(SampleNodes, MaxNodes)} :
        ValidDocument(document)}

\* The model file of generate_map: one node with one triangle, no material declared.
house_document ==
    [materials |-> <<>>,
     nodes     |-> <<node(<<0, 0, 0>>, <<0, 0, 0, 2>>, <<1000, 1000, 1000>>, TRUE,
                          <<primitive(positions_along(3, 100), FALSE, <<>>,
                                      TRUE, <<0, 1, 2>>, FALSE, 0)>>)>>]

----------------------------------------------------------------------------
(* my3d_lib: World::bake_mesh and World::bake_meshes *)

\* Vec3A * Vec3A: the componentwise product.
VMul(u, v) == <<SDiv(u[1] * v[1], 1000), SDiv(u[2] * v[2], 1000), SDiv(u[3] * v[3], 1000)>>

VDot(u, v) == u[1] * v[1] + u[2] * v[2] + u[3] * v[3]

\* Quat * Vec3A, the rotation of v by the unit quaternion q = (b, w):
\* v * (w*w - b.b) + b * (2 * v.b) + (b x v) * (2 * w), with q in halves.
quat_mul_vec3(q, v) ==
    LET b == <<q[1], q[2], q[3]>>
        w == q[4]
        k == w * w - VDot(b, b)
        d == 2 * VDot(v, b)
        c == <<b[2] * v[3] - b[3] * v[2], b[3] * v[1] - b[1] * v[3], b[1] * v[2] - b[2] * v[1]>>
    IN  <<SDiv(v[1] * k + b[1] * d + c[1] * 2 * w, 4),
          SDiv(v[2] * k + b[2] * d + c[2] * 2 * w, 4),
          SDiv(v[3] * k + b[3] * d + c[3] * 2 * w, 4)>>

\* Fault: the vertex is rotated before it is scaled.
bake_vertex_rotated_first(mesh, vert) ==
    VAdd(VMul(quat_mul_vec3(mesh.rotation, vert), mesh.scale), mesh.position)

\* *vert *= baked.scale; *vert = baked.rotation * *vert; *vert += baked.position
bake_vertex(mesh, vert) ==
    VAdd(quat_mul_vec3(mesh.rotation, VMul(vert, mesh.scale)), mesh.position)

\* *normal = baked.rotation * *normal; *normal = normal.normalize()
bake_normal(mesh, normal) == VNormalize(quat_mul_vec3(mesh.rotation, normal))

\* Fault: the edges are taken between the vertices of the unbaked mesh.
recompute_edges_unbaked(mesh, vertices, f) ==
    <<VSub(mesh.vertices[f.indices[2] + 1], mesh.vertices[f.indices[1] + 1]),
      VSub(mesh.vertices[f.indices[3] + 1], mesh.vertices[f.indices[1] + 1])>>

\* face.edges[0] = baked.vertices[face.indices[1]] - baked.vertices[face.indices[0]];
\* face.edges[1] = baked.vertices[face.indices[2]] - baked.vertices[face.indices[0]]
recompute_edges(mesh, vertices, f) ==
    <<VSub(vertices[f.indices[2] + 1], vertices[f.indices[1] + 1]),
      VSub(vertices[f.indices[3] + 1], vertices[f.indices[1] + 1])>>

\* World::bake_mesh: the clone of the mesh with its vertices transformed, the
\* normals of its faces rotated and the edges of its faces recomputed.
bake_mesh(mesh) ==
    LET vertices == [i \in 1..Len(mesh.vertices) |-> bake_vertex(mesh, mesh.vertices[i])]
    IN  [mesh EXCEPT
            !.vertices = vertices,
            !.faces    = [j \in 1..Len(mesh.faces) |->
                             [mesh.faces[j] EXCEPT
                                 !.normals = [n \in 1..3 |-> bake_normal(mesh, @[n])],
                                 !.edges   = recompute_edges(mesh, vertices, mesh.faces[j])]]]

\* World { meshes: vec![], baked_meshes: vec![] }
new_world == [meshes |-> <<>>, baked_meshes |-> <<>>]

\* world.meshes.extend(meshes)
extend_meshes(w, meshes) == [w EXCEPT !.meshes = @ \o meshes]

\* Fault: the baked list is not emptied before the meshes are pushed.
bake_meshes_appending(w) ==
    [w EXCEPT !.baked_meshes = @ \o [i \in 1..Len(w.meshes) |-> bake_mesh(w.meshes[i])]]

\* World::bake_meshes: self.baked_meshes = vec![], then a push of bake_mesh(mesh)
\* for each mesh in order.
bake_meshes(w) ==
    [w EXCEPT !.baked_meshes = [i \in 1..Len(w.meshes) |-> bake_mesh(w.meshes[i])]]

\* generate_map: the model file loaded into a new World and baked.
generate_map == bake_meshes(extend_meshes(new_world, load_glb(house_document)))

----------------------------------------------------------------------------
(* State::new: the scene encoder ("Convert to GPU format") *)

\* A Face of my3d_lib with the given local indices and material index; its normals
\* are marked with the indices so that they can be told apart.
face(i0, i1, i2, material_idx) ==
    [indices      |-> <<i0, i1, i2>>,
     normals      |-> <<<<0, 0, 1000 + i0>>, <<0, 0, 1000 + i1>>, <<0, 0, 1000 + i2>>>>,
     material_idx |-> material_idx,
     edges        |-> <<<<i1 - i0, 0, 0>>, <<i2 - i0, 0, 0>>>>]

lamp_material == [albedo |-> <<800, 800, 800>>, emission |-> <<5000, 5000, 5000>>, roughness |-> 500]

\* A baked Mesh with n vertices placed along the line x = base + index.
mesh(n, base, faces, materials) ==
    [vertices  |-> [i \in 1..n |-> <<base + i - 1, 0, 0>>],
     faces     |-> faces,
     materials |-> materials]

\* The baked meshes the encoder is run on: a quad of two faces, a triangle, a
\* triangle that uses the second of two materials, and a mesh without faces.
SampleMeshes ==
    { mesh(4, 0, <<face(0, 1, 2, 0), face(0, 2, 3, 0)>>, <<default_material>>),
      mesh(3, 100, <<face(0, 1, 2, 0)>>, <<default_material>>),
      mesh(3, 200, <<face(2, 1, 0, 1)>>, <<default_material, lamp_material>>),
      mesh(1, 300, <<>>, <<default_material>>) }

\* gpu_vertices.push(GpuVertex { position: [vert.x, vert.y, vert.z], _padding: 0.0 })
GpuVertex(vert) == [position |-> <<vert[1], vert[2], vert[3]>>, _padding |-> 0]

\* Fault: the vertex offset is taken after the vertices of the mesh were pushed.
vertex_offset_after(gpu_vertices, m) == Len(gpu_vertices) + Len(m.vertices)

\* let vertex_offset = gpu_vertices.len() as u32, before the vertices are pushed
vertex_offset_of(gpu_vertices, m) == Len(gpu_vertices)

\* gpu_faces.push(GpuFace { .. }): the indices and the material index re-based, the
\* normals copied, the edges left out.  The counts of the model are far below 2^32,
\* where the casts to u32 change nothing.
GpuFace(f, vertex_offset, material_offset) ==
    [indices      |-> <<f.indices[1] + vertex_offset,
                        f.indices[2] + vertex_offset,
                        f.indices[3] + vertex_offset>>,
     material_idx |-> f.material_idx + material_offset,
     normal0 |-> f.normals[1], _padding1 |-> 0,
     normal1 |-> f.normals[2], _padding2 |-> 0,
     normal2 |-> f.normals[3], _padding3 |-> 0]

\* impl From<Material> for GpuMaterial
GpuMaterial(mat) ==
    [albedo |-> <<mat.albedo[1], mat.albedo[2], mat.albedo[3]>>,
     roughness |-> mat.roughness,
     emission |-> <<mat.emission[1], mat.emission[2], mat.emission[3]>>,
     _padding |-> 0]

\* The encoder before the loop over world.baked_meshes.
encoder_start(meshes) ==
    [pc            |-> "loop",
     baked_meshes  |-> meshes,
     done          |-> 0,
     gpu_vertices  |-> <<>>,
     gpu_faces     |-> <<>>,
     gpu_materials |-> <<>>,
     scene_info    |-> [num_faces |-> 0, num_materials |-> 0, _padding |-> <<0, 0>>]]

\* Fault: the materials of the mesh are pushed before its faces, so that the
\* material offset of the faces counts them.
encode_mesh_materials_first(enc, m) ==
    LET vertex_offset == vertex_offset_of(enc.gpu_vertices, m)
        materials     == enc.gpu_materials \o
                             [i \in 1..Len(m.materials) |-> GpuMaterial(m.materials[i])]
    IN  [enc EXCEPT
            !.gpu_vertices  = @ \o [i \in 1..Len(m.vertices) |-> GpuVertex(m.vertices[i])],
            !.gpu_faces     = @ \o [i \in 1..Len(m.faces) |->
                                       GpuFace(m.faces[i], vertex_offset, Len(materials))],
            !.gpu_materials = materials,
            !.done          = @ + 1]

\* Fault: a material that is already in gpu_materials is not pushed again.
encode_mesh_sharing_materials(enc, m) ==
    LET vertex_offset == vertex_offset_of(enc.gpu_vertices, m)
        present       == {enc.gpu_materials[i] : i \in 1..Len(enc.gpu_materials)}
    IN  [enc EXCEPT
            !.gpu_vertices  = @ \o [i \in 1..Len(m.vertices) |-> GpuVertex(m.vertices[i])],
            !.gpu_faces     = @ \o [i \in 1..Len(m.faces) |->
                                       GpuFace(m.faces[i], vertex_offset,
                                               Len(enc.gpu_materials))],
            !.gpu_materials = @ \o SelectSeq([i \in 1..Len(m.materials) |->
                                                 GpuMaterial(m.materials[i])],
                                             LAMBDA g : g \notin present),
            !.done          = @ + 1]

\* One iteration of `for mesh in &world.baked_meshes`: vertex_offset is taken, the
\* vertices are pushed, the faces are pushed against the lengths so far, and the
\* materials are pushed.
encode_mesh(enc, m) ==
    LET vertex_offset == vertex_offset_of(enc.gpu_vertices, m)
    IN  [enc EXCEPT
            !.gpu_vertices  = @ \o [i \in 1..Len(m.vertices) |-> GpuVertex(m.vertices[i])],
            !.gpu_faces     = @ \o [i \in 1..Len(m.faces) |->
                                       GpuFace(m.faces[i], vertex_offset,
                                               Len(enc.gpu_materials))],
            !.gpu_materials = @ \o [i \in 1..Len(m.materials) |->
                                       GpuMaterial(m.materials[i])],
            !.done          = @ + 1]

\* num_faces, num_materials and GpuSceneInfo, after the loop.
create_scene_info(enc) ==
    [enc EXCEPT !.pc = "done",
                !.scene_info = [num_faces     |-> Len(enc.gpu_faces),
                                num_materials |-> Len(enc.gpu_materials),
                                _padding      |-> <<0, 0>>]]

RECURSIVE encode_from(_)
\* The loop run to its end and the scene info created.
encode_from(enc) ==
    IF enc.done < Len(enc.baked_meshes)
    THEN encode_from(encode_mesh(enc, enc.baked_meshes[enc.done + 1]))
    ELSE create_scene_info(enc)

\* let world: World = generate_map(): the scene of the window runs, one triangle.
window_scene == generate_map.baked_meshes

----------------------------------------------------------------------------
(* State::new *)

new(size) ==
    LET w  == Max(size.width, 1)
        h  == Max(size.height, 1)
        rt == create_texture({}, w, h)
        a  == create_texture({rt.id}, w, h)
        b  == create_texture({rt.id, a.id}, w, h)
        fw == forward_of(0, 0)
        rg == right_of(fw)
    IN  [ config                 |-> [width |-> w, height |-> h],
          is_surface_configured  |-> FALSE,
          device                 |-> {rt.id, a.id, b.id},
          render_texture         |-> rt,
          accumulation_texture_a |-> a,
          accumulation_texture_b |-> b,
          accumulation_swap      |-> FALSE,
          render_bind_group      |-> rt.id,
          camera_pos             |-> <<0, 0, 0>>,
          yaw                    |-> 0,
          pitch                  |-> 0,
          forward                |-> fw,
          right                  |-> rg,
          up                     |-> up_of(rg, fw),
          focal_distance         |-> focal_distance_0,
          aperture_radius        |-> aperture_radius_0,
          keys_down              |-> {},
          mouse_delta            |-> <<0, 0>>,
          input_locked           |-> FALSE,
          redraw_pending         |-> TRUE,
          frame                  |-> 0,
          sample_count           |-> 0,
          calls                  |-> <<>> ]

(* State::resize *)

\* Fault: the guard written with || for &&.
resize_guard_either(width, height) == width > 0 \/ height > 0

\* if width > 0 && height > 0
resize_guard(width, height) == width > 0 /\ height > 0

\* Fault: the display bind group left on the view of the old render target.
render_bind_group_kept(s, render_texture) == s.render_bind_group

\* The display bind group, rebuilt on the view of the new render target.
create_render_bind_group(s, render_texture) == render_texture.id

\* Fault: the resize leaves the swap parity as it was.
resize_keeping_swap(s, width, height) ==
    IF resize_guard(width, height)
    THEN LET rt == create_texture(s.device, width, height)
             a  == create_texture(s.device \cup {rt.id}, width, height)
             b  == create_texture(s.device \cup {rt.id, a.id}, width, height)
         IN  [s EXCEPT !.config                 = [width |-> width, height |-> height],
                       !.is_surface_configured  = TRUE,
                       !.device                 = s.device \cup {rt.id, a.id, b.id},
                       !.render_texture         = rt,
                       !.accumulation_texture_a = a,
                       !.accumulation_texture_b = b,
                       !.render_bind_group      = create_render_bind_group(s, rt),
                       !.sample_count           = 0,
                       !.calls                  = Append(@, "resize")]
    ELSE [s EXCEPT !.calls = Append(@, "resize")]

resize(s, width, height) ==
    IF resize_guard(width, height)
    THEN LET rt == create_texture(s.device, width, height)
             a  == create_texture(s.device \cup {rt.id}, width, height)
             b  == create_texture(s.device \cup {rt.id, a.id}, width, height)
         IN  [s EXCEPT !.config                 = [width |-> width, height |-> height],
                       !.is_surface_configured  = TRUE,
                       !.device                 = s.device \cup {rt.id, a.id, b.id},
                       !.render_texture         = rt,
                       !.accumulation_texture_a = a,
                       !.accumulation_texture_b = b,
                       !.accumulation_swap      = FALSE,
                       !.render_bind_group      = create_render_bind_group(s, rt),
                       !.sample_count           = 0,
                       !.calls                  = Append(@, "resize")]
    ELSE [s EXCEPT !.calls = Append(@, "resize")]

(* State::reset_accumulation_textures *)

\* Fault: only image A is recreated; image B keeps what was accumulated.
reset_recreating_a_only(s) ==
    LET a == create_texture(s.device, s.accumulation_texture_a.width,
                            s.accumulation_texture_a.height)
    IN  [s EXCEPT !.sample_count           = 0,
                  !.device                 = s.device \cup {a.id},
                  !.accumulation_texture_a = a,
                  !.calls                  = Append(@, "reset_accumulation_textures")]

\* Fault: the reset also clears the frame counter.
reset_clearing_frame(s) ==
    LET a == create_texture(s.device, s.accumulation_texture_a.width,
                            s.accumulation_texture_a.height)
        b == create_texture(s.device \cup {a.id}, a.width, a.height)
    IN  [s EXCEPT !.sample_count           = 0,
                  !.frame                  = 0,
                  !.device                 = s.device \cup {a.id, b.id},
                  !.accumulation_texture_a = a,
                  !.accumulation_texture_b = b,
                  !.calls                  = Append(@, "reset_accumulation_textures")]

\* Fault: the images are recreated but sample_count is not reset.
reset_keeping_sample_count(s) ==
    LET a == create_texture(s.device, s.accumulation_texture_a.width,
                            s.accumulation_texture_a.height)
        b == create_texture(s.device \cup {a.id}, a.width, a.height)
    IN  [s EXCEPT !.device                 = s.device \cup {a.id, b.id},
                  !.accumulation_texture_a = a,
                  !.accumulation_texture_b = b,
                  !.calls                  = Append(@, "reset_accumulation_textures")]

\* Fault: the reset also flips the swap parity.
reset_flipping_swap(s) ==
    LET a == create_texture(s.device, s.accumulation_texture_a.width,
                            s.accumulation_texture_a.height)
        b == create_texture(s.device \cup {a.id}, a.width, a.height)
    IN  [s EXCEPT !.sample_count           = 0,
                  !.accumulation_swap      = ~s.accumulation_swap,
                  !.device                 = s.device \cup {a.id, b.id},
                  !.accumulation_texture_a = a,
                  !.accumulation_texture_b = b,
                  !.calls                  = Append(@, "reset_accumulation_textures")]

reset_accumulation_textures(s) ==
    LET a == create_texture(s.device, s.accumulation_texture_a.width,
                            s.accumulation_texture_a.height)
        b == create_texture(s.device \cup {a.id}, a.width, a.height)
    IN  [s EXCEPT !.sample_count           = 0,
                  !.device                 = s.device \cup {a.id, b.id},
                  !.accumulation_texture_a = a,
                  !.accumulation_texture_b = b,
                  !.calls                  = Append(@, "reset_accumulation_textures")]

(* State::handle_key: the new State and whether event_loop.exit() was called *)

\* Fault: the focal-distance arm without its reset.
focal_key_without_reset(s, step) == [s EXCEPT !.focal_distance = @ + step]

\* (KeyCode::ArrowUp, true) and (KeyCode::ArrowDown, true)
focal_key(s, step) ==
    reset_accumulation_textures([s EXCEPT !.focal_distance = @ + step])

\* Fault: the aperture arm with the reset of the focal-distance arm.
aperture_key_with_reset(s, step) ==
    reset_accumulation_textures([s EXCEPT !.aperture_radius = @ + step])

\* (KeyCode::ArrowLeft, true) and (KeyCode::ArrowRight, true)
aperture_key(s, step) == [s EXCEPT !.aperture_radius = @ + step]

\* Fault: the set is not maintained while input is locked.
keys_after_unless_locked(s, code, is_pressed) ==
    IF s.input_locked THEN s.keys_down
    ELSE IF is_pressed THEN s.keys_down \cup {code} ELSE s.keys_down \ {code}

\* if is_pressed { self.keys_down.insert(code) } else { self.keys_down.remove(&code) }
keys_after(s, code, is_pressed) ==
    IF is_pressed THEN s.keys_down \cup {code} ELSE s.keys_down \ {code}

handle_key(s, code, is_pressed) ==
    LET s1 == [s EXCEPT !.keys_down = keys_after(s, code, is_pressed),
                        !.calls     = Append(@, "handle_key")]
    IN  CASE code = "Escape" /\ is_pressed ->
               [state |-> s1, exit |-> TRUE]
          [] code = "KeyL" /\ is_pressed ->
               [state |-> [s1 EXCEPT !.input_locked = ~s1.input_locked], exit |-> FALSE]
          [] code = "ArrowUp" /\ is_pressed ->
               [state |-> focal_key(s1, key_step), exit |-> FALSE]
          [] code = "ArrowDown" /\ is_pressed ->
               [state |-> focal_key(s1, -key_step), exit |-> FALSE]
          [] code = "ArrowLeft" /\ is_pressed ->
               [state |-> aperture_key(s1, key_step), exit |-> FALSE]
          [] code = "ArrowRight" /\ is_pressed ->
               [state |-> aperture_key(s1, -key_step), exit |-> FALSE]
          [] OTHER ->
               [state |-> s1, exit |-> FALSE]

(* State::update *)

\* Fault: the step is the direction itself, not the direction times the amount.
move_unscaled(pos, keys_down, key, dir, amount) ==
    IF key \in keys_down THEN VAdd(pos, dir) ELSE pos

\* One `if self.keys_down.contains(&key) { self.camera_pos += dir * amount }`.
move(pos, keys_down, key, dir, amount) ==
    IF key \in keys_down THEN VAdd(pos, VScale(dir, amount)) ELSE pos

MovementKeys == {"KeyW", "KeyS", "KeyD", "KeyA", "Space", "ShiftLeft"}

\* Fault: the reset inside the arms of the keys, so that it runs again when a
\* second key is held.
reset_per_key(s, held) ==
    IF Cardinality(held) >= 2
    THEN reset_accumulation_textures(reset_accumulation_textures(s))
    ELSE IF held # {} THEN reset_accumulation_textures(s) ELSE s

\* let mut moved = false; ... moved = true in the arm of each held key ...
\* if moved { self.reset_accumulation_textures() }
reset_if_moved(s, held) == IF held # {} THEN reset_accumulation_textures(s) ELSE s

\* Fault: the movement keys are read whether input is locked or not.
input_unlocked_always(s) == TRUE

\* if !self.input_locked
input_unlocked(s) == ~s.input_locked

\* Fault: the delta stays pending after it was applied.
mouse_delta_kept(s) == s.mouse_delta

\* self.mouse_delta = (0.0, 0.0)
mouse_delta_cleared(s) == <<0, 0>>

update(s, dt) ==
    LET yaw    == s.yaw - s.mouse_delta[1] * mouse_sensitivity
        pitch  == clamp(s.pitch - s.mouse_delta[2] * mouse_sensitivity,
                        -pitch_limit, pitch_limit)
        fw     == forward_of(yaw, pitch)
        rg     == right_of(fw)
        u      == up_of(rg, fw)
        s1     == [s EXCEPT !.yaw = yaw, !.pitch = pitch,
                            !.mouse_delta = mouse_delta_cleared(s),
                            !.forward = fw, !.right = rg, !.up = u,
                            !.calls = Append(@, "update")]
        amount == speed * dt
        p1     == move(s1.camera_pos, s1.keys_down, "KeyW", fw, amount)
        p2     == move(p1, s1.keys_down, "KeyS", fw, -amount)
        p3     == move(p2, s1.keys_down, "KeyD", rg, amount)
        p4     == move(p3, s1.keys_down, "KeyA", rg, -amount)
        p5     == move(p4, s1.keys_down, "Space", u, -amount)
        p6     == move(p5, s1.keys_down, "ShiftLeft", u, amount)
    IN  IF input_unlocked(s1)
        THEN reset_if_moved([s1 EXCEPT !.camera_pos = p6], s1.keys_down \cap MovementKeys)
        ELSE s1

(* State::render: the new State, the Result, the compute dispatch submitted, and  *)
(* whether a frame was presented and a redraw requested.                          *)
(* `acquire` is the outcome of surface.get_current_texture().                     *)

NoDispatch ==
    [dispatched |-> FALSE, input_view |-> 0, output_view |-> 0, a_view |-> 0, b_view |-> 0,
     render_view |-> 0, rand_seed |-> 0, sample_count |-> 0, dispatch_x |-> 0, dispatch_y |-> 0]

\* Fault: with the parity set, the same image is bound for reading and writing.
select_views_aliased(s) ==
    IF s.accumulation_swap
    THEN [input_view  |-> s.accumulation_texture_b.id,
          output_view |-> s.accumulation_texture_b.id]
    ELSE [input_view  |-> s.accumulation_texture_a.id,
          output_view |-> s.accumulation_texture_b.id]

\* let (input_view, output_view) = if self.accumulation_swap { (b, a) } else { (a, b) }
select_views(s) ==
    IF s.accumulation_swap
    THEN [input_view  |-> s.accumulation_texture_b.id,
          output_view |-> s.accumulation_texture_a.id]
    ELSE [input_view  |-> s.accumulation_texture_a.id,
          output_view |-> s.accumulation_texture_b.id]

\* Fault: the grid is the resolution divided by the work-group edge, rounded down.
compute_dispatch_rounding_down(s) ==
    [dispatched   |-> TRUE,
     input_view   |-> select_views(s).input_view,
     output_view  |-> select_views(s).output_view,
     a_view       |-> s.accumulation_texture_a.id,
     b_view       |-> s.accumulation_texture_b.id,
     render_view  |-> s.render_texture.id,
     rand_seed    |-> s.frame,
     sample_count |-> s.sample_count,
     dispatch_x   |-> s.config.width \div workgroup_size,
     dispatch_y   |-> s.config.height \div workgroup_size]

\* Fault: the uniforms are written after the increments of the previous frame and
\* count this frame too.
compute_dispatch_counting_this_frame(s) ==
    [dispatched   |-> TRUE,
     input_view   |-> select_views(s).input_view,
     output_view  |-> select_views(s).output_view,
     a_view       |-> s.accumulation_texture_a.id,
     b_view       |-> s.accumulation_texture_b.id,
     render_view  |-> s.render_texture.id,
     rand_seed    |-> s.frame + 1,
     sample_count |-> s.sample_count + 1,
     dispatch_x   |-> (s.config.width + workgroup_size - 1) \div workgroup_size,
     dispatch_y   |-> (s.config.height + workgroup_size - 1) \div workgroup_size]

\* The two uniforms (queue.write_buffer of frame and sample_count), the compute bind
\* group of this frame and the dispatch over the work-group grid.
compute_dispatch(s) ==
    [dispatched   |-> TRUE,
     input_view   |-> select_views(s).input_view,
     output_view  |-> select_views(s).output_view,
     a_view       |-> s.accumulation_texture_a.id,
     b_view       |-> s.accumulation_texture_b.id,
     render_view  |-> s.render_texture.id,
     rand_seed    |-> s.frame,
     sample_count |-> s.sample_count,
     dispatch_x   |-> (s.config.width + workgroup_size - 1) \div workgroup_size,
     dispatch_y   |-> (s.config.height + workgroup_size - 1) \div workgroup_size]

\* queue.submit of the compute pass: the textures bound for writing are written.
submit_compute(s, dispatch) ==
    LET mark(tex) == IF tex.id \in {dispatch.output_view, dispatch.render_view}
                     THEN [tex EXCEPT !.written = TRUE] ELSE tex
    IN  [s EXCEPT !.render_texture         = mark(@),
                  !.accumulation_texture_a = mark(@),
                  !.accumulation_texture_b = mark(@)]

\* Fault: the parity is not flipped.
swap_kept(s) == s

\* self.accumulation_swap ^= true
swap_accumulation(s) == [s EXCEPT !.accumulation_swap = ~s.accumulation_swap]

\* Fault: sample_count is not incremented.
count_frame_only(s) == [s EXCEPT !.frame = @ + 1]

\* self.frame += 1; self.sample_count += 1
count_frame(s) == [s EXCEPT !.frame = @ + 1, !.sample_count = @ + 1]

\* self.window.request_redraw(): the window holds the request until the event loop
\* delivers RedrawRequested.
request_redraw(s) == [s EXCEPT !.redraw_pending = TRUE]

\* Fault: the early return is missing.
surface_assumed_ready(s) == TRUE

\* if !self.is_surface_configured { return Ok(()) }
surface_ready(s) == s.is_surface_configured

render(s, acquire) ==
    LET s0 == [s EXCEPT !.calls = Append(@, "render")]
    IN  IF ~surface_ready(s0)
        THEN [state |-> s0, result |-> "Ok", dispatch |-> NoDispatch,
              presented |-> FALSE, request_redraw |-> FALSE]
        ELSE LET disp == compute_dispatch(s0)
                 s1   == swap_accumulation(submit_compute(s0, disp))
             IN  IF acquire # "Ok"
                 THEN [state |-> s1, result |-> acquire, dispatch |-> disp,
                       presented |-> FALSE, request_redraw |-> FALSE]
                 ELSE [state |-> request_redraw(count_frame(s1)),
                       result |-> "Ok", dispatch |-> disp,
                       presented |-> TRUE, request_redraw |-> TRUE]

----------------------------------------------------------------------------
(* Observation of a callback *)

\* Whether the accumulation images of t are other objects than those of s.
Recreated(s, t) == t.accumulation_texture_a.id # s.accumulation_texture_a.id

\* The texture fields of State that hold another object in t than in s.
RecreatedFields(s, t) ==
    {f \in {"render_texture", "accumulation_texture_a", "accumulation_texture_b"} :
        t[f].id # s[f].id}

\* s and t are the same program state.
Same(s, t) == [s EXCEPT !.calls = <<>>] = [t EXCEPT !.calls = <<>>]

EndsInReset(calls) ==
    calls # <<>> /\ calls[Len(calls)] = "reset_accumulation_textures"

NoRender ==
    [called |-> FALSE, configured |-> FALSE, result |-> "Ok", unchanged |-> TRUE,
     swap_before |-> FALSE, swap_after |-> FALSE,
     frame_before |-> 0, frame_after |-> 0,
     sample_count_before |-> 0, sample_count_after |-> 0,
     presented |-> FALSE, request_redraw |-> FALSE, dispatch |-> NoDispatch]

\* What the call render(s, _) = r did.
RenderCall(s, r) ==
    [called |-> TRUE, configured |-> s.is_surface_configured, result |-> r.result,
     unchanged |-> Same(s, r.state),
     swap_before |-> s.accumulation_swap, swap_after |-> r.state.accumulation_swap,
     frame_before |-> s.frame, frame_after |-> r.state.frame,
     sample_count_before |-> s.sample_count, sample_count_after |-> r.state.sample_count,
     presented |-> r.presented, request_redraw |-> r.request_redraw,
     dispatch |-> r.dispatch]

NoResize == [called |-> FALSE, width |-> 0, height |-> 0, unchanged |-> TRUE]

\* What a dispatch renders: the camera and the resolution.
view_of(s) ==
    [camera_pos |-> s.camera_pos, yaw |-> s.yaw, pitch |-> s.pitch,
     focal_distance |-> s.focal_distance,
     width |-> s.config.width, height |-> s.config.height]

\* No dispatch has been submitted.  `recording` says whether the run keeps the
\* record of its dispatches at all: the runs about consecutive dispatches do.
NoneDispatched ==
    [recording |-> TRUE, dispatched |-> FALSE,
     view |-> [camera_pos |-> <<0, 0, 0>>, yaw |-> 0, pitch |-> 0, focal_distance |-> 0,
               width |-> 0, height |-> 0],
     rand_seed |-> 0, sample_count |-> 0, input |-> "a", output |-> "b",
     input_fresh |-> TRUE, recreated_before |-> FALSE, recreated_since |-> FALSE]

NotRecording == [NoneDispatched EXCEPT !.recording = FALSE]

\* Which of the two accumulation images a view of a dispatch belongs to.
image_of(dispatch, view) == IF view = dispatch.a_view THEN "a" ELSE "b"

\* The accumulation image of s behind a view.
texture_of(s, view) ==
    IF view = s.accumulation_texture_a.id
    THEN s.accumulation_texture_a ELSE s.accumulation_texture_b

\* The record of the last dispatch after a part of a callback that took State s to
\* State t without a dispatch: the images may have been recreated.
dispatch_kept(last, s, t) ==
    IF last.recording THEN [last EXCEPT !.recreated_since = @ \/ Recreated(s, t)] ELSE last

\* The record of the last dispatch after update took State s to State s1 and
\* render(s1, _) = r: the dispatch of r if there is one.  recreated_before says
\* whether the accumulation images were recreated between the dispatch before and
\* this one, input_fresh whether the image read had been written by no dispatch.
dispatch_seen(last, s, s1, r) ==
    IF last.recording /\ r.dispatch.dispatched
    THEN [recording        |-> TRUE,
          dispatched       |-> TRUE,
          view             |-> view_of(s1),
          rand_seed        |-> r.dispatch.rand_seed,
          sample_count     |-> r.dispatch.sample_count,
          input            |-> image_of(r.dispatch, r.dispatch.input_view),
          output           |-> image_of(r.dispatch, r.dispatch.output_view),
          input_fresh      |-> ~texture_of(s1, r.dispatch.input_view).written,
          recreated_before |-> last.recreated_since \/ Recreated(s, s1),
          recreated_since  |-> FALSE]
    ELSE dispatch_kept(last, s, s1)

\* What the call resize(s, width, height) = t did.
ResizeCall(s, t, width, height) ==
    [called |-> TRUE, width |-> width, height |-> height, unchanged |-> Same(s, t)]

\* Texture ids a dispatch refers to.
DispatchIds(dispatch) ==
    IF dispatch.dispatched
    THEN {dispatch.input_view, dispatch.output_view, dispatch.a_view, dispatch.b_view,
          dispatch.render_view}
    ELSE {}

\* The texture ids a State refers to.
TextureIds(s) ==
    {s.render_texture.id, s.accumulation_texture_a.id,
     s.accumulation_texture_b.id, s.render_bind_group}

\* When a callback returns, the textures nothing refers to any more are dropped and
\* the ids are renamed: the render target is 0, the accumulation images are 1 and 2,
\* and the objects that are only referred to (a stale bind group, the views of the
\* last dispatch) follow in order.
Rename(s, dispatch, id) ==
    IF id = s.render_texture.id THEN 0
    ELSE IF id = s.accumulation_texture_a.id THEN 1
    ELSE IF id = s.accumulation_texture_b.id THEN 2
    ELSE 3 + Cardinality({j \in (DispatchIds(dispatch) \cup {s.render_bind_group}) :
                            /\ j < id
                            /\ j \notin {s.render_texture.id, s.accumulation_texture_a.id,
                                         s.accumulation_texture_b.id}})

release(s, dispatch) ==
    [s EXCEPT !.render_texture.id         = 0,
              !.accumulation_texture_a.id = 1,
              !.accumulation_texture_b.id = 2,
              !.render_bind_group         = Rename(s, dispatch, @),
              !.device = {Rename(s, dispatch, id) : id \in TextureIds(s) \cup DispatchIds(dispatch)},
              !.calls  = <<>>]

release_dispatch(s, dispatch) ==
    IF dispatch.dispatched
    THEN [dispatch EXCEPT !.input_view  = Rename(s, dispatch, @),
                          !.output_view = Rename(s, dispatch, @),
                          !.a_view      = Rename(s, dispatch, @),
                          !.b_view      = Rename(s, dispatch, @),
                          !.render_view = Rename(s, dispatch, @)]
    ELSE dispatch

\* The record of a callback that took State s to State t.
Observed(type, args, s, t, after_reset, render_call, resize_call) ==
    [type        |-> type,
     args        |-> args,
     calls       |-> t.calls,
     recreated   |-> RecreatedFields(s, t),
     before      |-> [sample_count |-> s.sample_count],
     after_reset |-> after_reset,
     render      |-> [render_call EXCEPT !.dispatch = release_dispatch(t, @)],
     resize      |-> resize_call]

----------------------------------------------------------------------------
(* The event loop *)

WithinBounds(s) ==
    /\ s.frame <= MaxFrame
    /\ Abs(s.focal_distance - focal_distance_0) <= MaxSteps * key_step
    /\ Abs(s.aperture_radius - aperture_radius_0) <= MaxSteps * key_step
    /\ \A i \in 1..2 : Abs(s.mouse_delta[i]) <= MaxMouse
    /\ Abs(s.yaw) <= MaxMouse * mouse_sensitivity
    /\ Abs(s.pitch) <= MaxMouse * mouse_sensitivity
    /\ \A i \in 1..3 : Abs(s.camera_pos[i]) <= MaxTravel * 1000

\* The bounds of the runs that look up and down: pending vertical motion of at most
\* MaxPendingLook pixels, any pitch, the camera at rest.
LookBounds(s) ==
    /\ s.frame <= MaxFrame
    /\ Abs(s.mouse_delta[1]) <= MaxMouse
    /\ Abs(s.mouse_delta[2]) <= MaxPendingLook
    /\ Abs(s.yaw) <= MaxMouse * mouse_sensitivity

Bounded(s, look) == IF look THEN LookBounds(s) ELSE WithinBounds(s)

\* ApplicationHandler::resumed: State::new, which reads window.inner_size() as
\* `created`, then resize to the window.inner_size() read after State::new returned.
\* The window can be resized while State::new waits for the adapter and the device.
resumed(created, size) == resize(new(created), size.width, size.height)

Started(created, size) ==
    /\ \E s0 \in {new(created)} :
       \E s1 \in {resumed(created, size)} :
           /\ state = release(s1, NoDispatch)
           /\ event = Observed("resumed", size, s0, s1, FALSE, NoRender,
                               ResizeCall(s0, s1, size.width, size.height))
    /\ exiting = FALSE
    /\ render_calls = 0
    /\ presented_calls = 0
    /\ received = <<0, 0>>
    /\ loader = load_from(loader_start(house_document))
    /\ world = generate_map
    /\ encoder = encode_from(encoder_start(window_scene))

Init ==
    /\ last_dispatch = NotRecording
    /\ \E created \in Sizes, size \in Sizes : Started(created, size)

\* WindowEvent::CloseRequested
CloseRequested ==
    /\ ~exiting
    /\ exiting' = TRUE
    /\ event' = Observed("CloseRequested", <<>>, state, state, EndsInReset(event.calls),
                         NoRender, NoResize)
    /\ UNCHANGED <<state, render_calls, presented_calls, assets, received, last_dispatch>>

\* WindowEvent::Resized(size)
Resized(size) ==
    \E s1 \in {resize(state, size.width, size.height)} :
        /\ ~exiting
        /\ state' = release(s1, NoDispatch)
        /\ event' = Observed("Resized", size, state, s1, EndsInReset(event.calls), NoRender,
                             ResizeCall(state, s1, size.width, size.height))
        /\ render_calls' = IF Recreated(state, s1) THEN 0 ELSE render_calls
        /\ presented_calls' = IF Recreated(state, s1) THEN 0 ELSE presented_calls
        /\ last_dispatch' = dispatch_kept(last_dispatch, state, s1)
        /\ UNCHANGED <<exiting, assets, received>>

\* Fault: every error takes the recovery arm.
recoverable_any(result) == result # "Ok"

\* Err(wgpu::SurfaceError::Lost | wgpu::SurfaceError::Outdated)
recoverable(result) == result \in {"Lost", "Outdated"}

\* WindowEvent::RedrawRequested: update, render, and the match on render's Result.
\* window.inner_size() is read in the recovery arm only.
redraw_requested(dt, acquire, look) ==
    \E s1 \in {update([state EXCEPT !.redraw_pending = FALSE], dt)} :
    \E r \in {render(s1, acquire)} :
    \E c2 \in {(IF Recreated(state, s1) THEN 0 ELSE render_calls) + 1} :
    \E p2 \in {(IF Recreated(state, s1) THEN 0 ELSE presented_calls)
                   + (IF r.presented THEN 1 ELSE 0)} :
        /\ ~exiting
        /\ c2 <= MaxRenderCalls
        /\ Bounded(r.state, look)
        /\ IF recoverable(r.result)
           THEN \E size \in Sizes :
                \E s2 \in {resize(r.state, size.width, size.height)} :
                    /\ state' = release(s2, r.dispatch)
                    /\ event' = Observed("RedrawRequested", [dt |-> dt, acquire |-> acquire],
                                         state, s2, EndsInReset(event.calls),
                                         RenderCall(s1, r),
                                         ResizeCall(r.state, s2, size.width, size.height))
                    /\ render_calls' = IF Recreated(r.state, s2) THEN 0 ELSE c2
                    /\ presented_calls' = IF Recreated(r.state, s2) THEN 0 ELSE p2
                    /\ last_dispatch' = dispatch_kept(dispatch_seen(last_dispatch, state, s1, r),
                                                      r.state, s2)
           ELSE /\ state' = release(r.state, r.dispatch)
                /\ event' = Observed("RedrawRequested", [dt |-> dt, acquire |-> acquire],
                                     state, r.state, EndsInReset(event.calls),
                                     RenderCall(s1, r), NoResize)
                /\ render_calls' = c2
                /\ presented_calls' = p2
                /\ last_dispatch' = dispatch_seen(last_dispatch, state, s1, r)
        /\ received' = <<0, 0>>
        /\ UNCHANGED <<exiting, assets>>

RedrawRequested(dt, acquire) == redraw_requested(dt, acquire, FALSE)

\* WindowEvent::KeyboardInput
KeyboardInput(code, is_pressed) ==
    \E r \in {handle_key(state, code, is_pressed)} :
        /\ ~exiting
        /\ WithinBounds(r.state)
        /\ state' = release(r.state, NoDispatch)
        /\ exiting' = r.exit
        /\ event' = Observed("KeyboardInput", [code |-> code, is_pressed |-> is_pressed],
                             state, r.state, EndsInReset(event.calls), NoRender, NoResize)
        /\ render_calls' = IF Recreated(state, r.state) THEN 0 ELSE render_calls
        /\ presented_calls' = IF Recreated(state, r.state) THEN 0 ELSE presented_calls
        /\ last_dispatch' = dispatch_kept(last_dispatch, state, r.state)
        /\ UNCHANGED <<assets, received>>

\* ApplicationHandler::device_event with DeviceEvent::MouseMotion { delta }
\* Fault: the motion does not reset the accumulation.
motion_without_reset(s, delta) ==
    IF ~s.input_locked
    THEN [s EXCEPT !.mouse_delta = <<@[1] - delta[1], @[2] - delta[2]>>]
    ELSE s

\* Fault: the motion is taken whether input is locked or not.
motion_ignoring_lock(s, delta) ==
    reset_accumulation_textures(
        [s EXCEPT !.mouse_delta = <<@[1] - delta[1], @[2] - delta[2]>>])

\* Fault: the motion is added to the pending delta.
motion_added(s, delta) ==
    IF ~s.input_locked
    THEN reset_accumulation_textures(
             [s EXCEPT !.mouse_delta = <<@[1] + delta[1], @[2] + delta[2]>>])
    ELSE s

\* if !state.input_locked { mouse_delta -= delta; reset_accumulation_textures() }
motion(s, delta) ==
    IF ~s.input_locked
    THEN reset_accumulation_textures(
             [s EXCEPT !.mouse_delta = <<@[1] - delta[1], @[2] - delta[2]>>])
    ELSE s

mouse_motion(delta, look) ==
    \E s1 \in {motion(state, delta)} :
        /\ ~exiting
        /\ Bounded(s1, look)
        /\ state' = release(s1, NoDispatch)
        /\ event' = Observed("MouseMotion", delta, state, s1, EndsInReset(event.calls),
                             NoRender, NoResize)
        /\ render_calls' = IF Recreated(state, s1) THEN 0 ELSE render_calls
        /\ presented_calls' = IF Recreated(state, s1) THEN 0 ELSE presented_calls
        /\ received' = IF state.input_locked THEN received
                       ELSE <<received[1] + delta[1], received[2] + delta[2]>>
        /\ last_dispatch' = dispatch_kept(last_dispatch, state, s1)
        /\ UNCHANGED <<exiting, assets>>

device_event(delta) == mouse_motion(delta, FALSE)

\* The frame pipeline under every source of invalidation: a resize, a focal-distance
\* key, a held movement key, mouse motion, and every outcome of surface acquisition.
Next ==
    \/ CloseRequested
    \/ \E size \in Sizes : Resized(size)
    \/ \E dt \in Dts, acquire \in SurfaceResults : RedrawRequested(dt, acquire)
    \/ \E code \in {"ArrowUp", "Space"}, is_pressed \in BOOLEAN : KeyboardInput(code, is_pressed)
    \/ \E delta \in MouseDeltas : device_event(delta)

Spec == Init /\ [][Next]_vars

\* The keyboard: every key that handle_key distinguishes, between presented frames.
NextInput ==
    \/ \E code \in {"Escape", "KeyL", "ArrowUp", "ArrowDown", "ArrowLeft", "ArrowRight"},
          is_pressed \in BOOLEAN : KeyboardInput(code, is_pressed)
    \/ \E dt \in Dts : RedrawRequested(dt, "Ok")

InitInput ==
    /\ last_dispatch = NotRecording
    /\ \E created \in InputSizes, size \in InputSizes : Started(created, size)

SpecInput == InitInput /\ [][NextInput]_vars

\* Movement: the six movement keys, held in any combination across presented
\* frames, in a window of 9 x 16.
NextMove ==
    \/ \E code \in MovementKeys, is_pressed \in BOOLEAN : KeyboardInput(code, is_pressed)
    \/ \E dt \in Dts : RedrawRequested(dt, "Ok")

InitMove ==
    /\ last_dispatch = NotRecording
    /\ Started([width |-> 9, height |-> 16], [width |-> 9, height |-> 16])

SpecMove == InitMove /\ [][NextMove]_vars

\* Looking: mouse motion up to the pitch clamp, locked and unlocked, with frames
\* that are presented and frames that are skipped.
NextLook ==
    \/ \E is_pressed \in BOOLEAN : KeyboardInput("KeyL", is_pressed)
    \/ \E delta \in LookDeltas : mouse_motion(delta, TRUE)
    \/ \E dt \in Dts, acquire \in {"Ok", "Timeout"} : redraw_requested(dt, acquire, TRUE)

SpecLook == Init /\ [][NextLook]_vars

\* Consecutive dispatches: the record of the last dispatch is kept, around a resize
\* to another size, a focal-distance key, a held movement key, mouse motion, and
\* frames that are presented, time out or lose the surface (with a recovery resize
\* to any of Sizes, the empty ones included).
InitChain ==
    /\ last_dispatch = NoneDispatched
    /\ Started([width |-> 9, height |-> 16], [width |-> 9, height |-> 16])

NextChain ==
    \/ \E size \in ChainSizes : Resized(size)
    \/ \E dt \in Dts, acquire \in {"Ok", "Timeout", "Lost"} : RedrawRequested(dt, acquire)
    \/ \E code \in {"ArrowUp", "Space"} : KeyboardInput(code, TRUE)
    \/ KeyboardInput("Space", FALSE)
    \/ \E delta \in MouseDeltas : device_event(delta)

SpecChain == InitChain /\ [][NextChain]_vars

\* Locking: the lock key, two movement keys and mouse motion around presented
\* frames, in a window of 9 x 16.
NextLock ==
    \/ \E code \in {"KeyL", "KeyW", "Space"}, is_pressed \in BOOLEAN :
           KeyboardInput(code, is_pressed)
    \/ \E delta \in MouseDeltas : device_event(delta)
    \/ \E dt \in Dts : RedrawRequested(dt, "Ok")

SpecLock == InitMove /\ [][NextLock]_vars

\* The held keys: presses and releases, repeated or not, of a key of each arm of
\* handle_key.
HeldKeyCodes == {"Escape", "KeyL", "ArrowUp", "ArrowLeft", "KeyW"}

NextKeys == \E code \in HeldKeyCodes, is_pressed \in BOOLEAN : KeyboardInput(code, is_pressed)

SpecKeys == Init /\ [][NextKeys]_vars

\* The redraw loop: RedrawRequested is delivered only when the program has asked
\* for it with request_redraw (or for the first frame of the new window); keys and
\* resizes come when they come.
requested_redraw(dt, acquire) == state.redraw_pending /\ RedrawRequested(dt, acquire)

NextLoop ==
    \/ \E dt \in Dts, acquire \in LoopSurfaceResults : requested_redraw(dt, acquire)
    \/ \E is_pressed \in BOOLEAN : KeyboardInput("ArrowUp", is_pressed)
    \/ \E size \in Sizes : Resized(size)

SpecLoop == Init /\ [][NextLoop]_vars

\* The scene encoder of State::new on its own: the loop over the baked meshes, one
\* mesh a step, then the scene info; the window is not created yet.
BeforeWindow ==
    /\ state = release(new([width |-> 9, height |-> 16]), NoDispatch)
    /\ event = Observed("new", <<>>, state, state, FALSE, NoRender, NoResize)
    /\ exiting = FALSE
    /\ render_calls = 0
    /\ presented_calls = 0
    /\ received = <<0, 0>>
    /\ last_dispatch = NotRecording

InitEncode ==
    /\ \E meshes \in SeqsUpTo(SampleMeshes, MaxMeshes) : encoder = encoder_start(meshes)
    /\ loader = load_from(loader_start(house_document))
    /\ world = generate_map
    /\ BeforeWindow

EncodeMesh ==
    /\ encoder.pc = "loop"
    /\ encoder.done < Len(encoder.baked_meshes)
    /\ encoder' = encode_mesh(encoder, encoder.baked_meshes[encoder.done + 1])
    /\ UNCHANGED <<window, loader, world>>

CreateSceneInfo ==
    /\ encoder.pc = "loop"
    /\ encoder.done = Len(encoder.baked_meshes)
    /\ encoder' = create_scene_info(encoder)
    /\ UNCHANGED <<window, loader, world>>

NextEncode == EncodeMesh \/ CreateSceneInfo

SpecEncode == InitEncode /\ [][NextEncode]_vars

\* load_glb on its own: the materials, then one node a step, then the return.
InitLoad ==
    /\ \E document \in Documents : loader = loader_start(document)
    /\ world = new_world
    /\ encoder = encoder_start(<<>>)
    /\ BeforeWindow

LoadMaterials ==
    /\ loader.pc = "materials"
    /\ loader' = load_materials(loader)
    /\ UNCHANGED <<window, world, encoder>>

LoadNode ==
    /\ loader.pc = "nodes"
    /\ loader.done < Len(loader.document.nodes)
    /\ loader' = load_node(loader, loader.document.nodes[loader.done + 1])
    /\ UNCHANGED <<window, world, encoder>>

LoadReturn ==
    /\ loader.pc = "nodes"
    /\ loader.done = Len(loader.document.nodes)
    /\ loader' = load_return(loader)
    /\ UNCHANGED <<window, world, encoder>>

NextLoad == LoadMaterials \/ LoadNode \/ LoadReturn

SpecLoad == InitLoad /\ [][NextLoad]_vars

\* The World on its own: loaded meshes are added to it and it is baked, in any
\* order and any number of times, up to MaxWorldMeshes meshes.
InitBake ==
    /\ world = new_world
    /\ loader = loader_start(house_document)
    /\ encoder = encoder_start(<<>>)
    /\ BeforeWindow

ExtendMeshes(document) ==
    /\ Len(world.meshes) + Len(load_glb(document)) <= MaxWorldMeshes
    /\ load_glb(document) # <<>>
    /\ world' = extend_meshes(world, load_glb(document))
    /\ UNCHANGED <<window, loader, encoder>>

BakeMeshes ==
    /\ world' = bake_meshes(world)
    /\ UNCHANGED <<window, loader, encoder>>

NextBake ==
    \/ \E document \in Documents : ExtendMeshes(document)
    \/ BakeMeshes

SpecBake == InitBake /\ [][NextBake]_vars

----------------------------------------------------------------------------
(* Properties of the accumulation pipeline *)

\* C1: in every render call that dispatches the compute kernel, the accumulation
\* image bound for reading and the one bound for writing are two different images,
\* and together they are the pair {A, B}.
C1_ReadWriteDistinct ==
    event.render.dispatch.dispatched =>
        /\ event.render.dispatch.input_view # event.render.dispatch.output_view
        /\ {event.render.dispatch.input_view, event.render.dispatch.output_view}
               = {event.render.dispatch.a_view, event.render.dispatch.b_view}

\* A dispatch with the parity set, reading B, right after an invalidation.
C1_Witness ==
    /\ event.render.dispatch.dispatched
    /\ event.render.swap_before
    /\ event.after_reset
    /\ event.render.dispatch.input_view = event.render.dispatch.b_view

\* C2 as stated: sample_count equals the number of render calls made since the last
\* invalidation (a reset of the accumulation images or a resize with both dimensions
\* non-zero).
C2_SampleCountIsRenderCalls == state.sample_count = render_calls

\* C2 amended: sample_count equals the number of render calls since the last
\* invalidation that presented a frame; a render call on an unconfigured surface
\* and a render call whose surface acquisition failed are not counted.
C2_SampleCountIsPresentedCalls == state.sample_count = presented_calls

\* Two render calls since the last invalidation, one of which presented a frame.
C2_Witness ==
    /\ render_calls = 2
    /\ presented_calls = 1
    /\ state.sample_count = 1
    /\ state.is_surface_configured

\* C3: reset_accumulation_textures sets sample_count to 0 and replaces both
\* accumulation images by fresh ones, whatever sample_count was before.
C3_ResetClearsAccumulation ==
    EndsInReset(event.calls) =>
        /\ state.sample_count = 0
        /\ {"accumulation_texture_a", "accumulation_texture_b"} \subseteq event.recreated
        /\ ~state.accumulation_texture_a.written
        /\ ~state.accumulation_texture_b.written

\* A reset that found sample_count at 2.
C3_Witness ==
    /\ EndsInReset(event.calls)
    /\ event.before.sample_count = 2

\* C4 as stated: every call to render flips the swap parity, whatever the surface
\* configuration state and whatever the outcome of the call.
C4_EveryRenderFlips ==
    event.render.called => event.render.swap_after = ~event.render.swap_before

\* C4 amended: every call to render on a configured surface flips the swap parity
\* exactly once, whatever the outcome of surface acquisition; a call on an
\* unconfigured surface leaves the parity as it was.
C4_ConfiguredRenderFlips ==
    event.render.called =>
        event.render.swap_after = IF event.render.configured
                                  THEN ~event.render.swap_before
                                  ELSE event.render.swap_before

\* A render call with the parity set whose surface acquisition timed out.
C4_Witness ==
    /\ event.render.called
    /\ event.render.configured
    /\ event.render.result = "Timeout"
    /\ event.render.swap_before
    /\ ~event.render.swap_after

\* C5: while the surface is not configured, render dispatches nothing, leaves the
\* whole State (parity, frame, sample_count, images) unchanged and returns Ok.
C5_UnconfiguredRenderIsNoOp ==
    (event.render.called /\ ~event.render.configured) =>
        /\ event.render.unchanged
        /\ ~event.render.dispatch.dispatched
        /\ event.render.result = "Ok"
        /\ ~event.render.presented
        /\ event.render.swap_after = event.render.swap_before
        /\ event.render.frame_after = event.render.frame_before
        /\ event.render.sample_count_after = event.render.sample_count_before

\* A render call on an unconfigured surface, where acquisition would have failed.
C5_Witness ==
    /\ event.render.called
    /\ ~event.render.configured
    /\ event.args.acquire = "Lost"

\* C6: resize with a zero width or a zero height leaves the whole State unchanged.
C6_ZeroResizeIsNoOp ==
    (event.resize.called /\ (event.resize.width = 0 \/ event.resize.height = 0)) =>
        event.resize.unchanged

\* A resize to (9, 0) of a configured State that has accumulated a sample.
C6_Witness ==
    /\ event.type = "Resized"
    /\ event.resize.called
    /\ event.resize.width = 9
    /\ event.resize.height = 0
    /\ state.is_surface_configured
    /\ state.sample_count > 0
    /\ state.accumulation_swap

\* C7: resize with both dimensions non-zero sets the configured resolution, marks
\* the surface configured, replaces the render target and both accumulation images
\* by fresh images of that size, rebuilds the display bind group on the new render
\* target and sets sample_count to 0.
C7_ResizeRebuilds ==
    (event.resize.called /\ event.resize.width > 0 /\ event.resize.height > 0) =>
        /\ state.config = [width |-> event.resize.width, height |-> event.resize.height]
        /\ state.is_surface_configured
        /\ event.recreated =
               {"render_texture", "accumulation_texture_a", "accumulation_texture_b"}
        /\ \A f \in {"render_texture", "accumulation_texture_a", "accumulation_texture_b"} :
               /\ state[f].width = event.resize.width
               /\ state[f].height = event.resize.height
               /\ ~state[f].written
        /\ state.render_bind_group = state.render_texture.id
        /\ state.sample_count = 0

\* A resize to (8, 9) of a State that had accumulated a sample at another size.
C7_Witness ==
    /\ event.type = "Resized"
    /\ event.resize.called
    /\ event.resize.width = 8
    /\ event.resize.height = 9
    /\ event.before.sample_count > 0

\* What C8 calls the observable state of the accumulation.
AccumulationState(s) ==
    [sample_count |-> s.sample_count,
     a            |-> s.accumulation_texture_a,
     b            |-> s.accumulation_texture_b,
     swap         |-> s.accumulation_swap,
     frame        |-> s.frame,
     config       |-> s.config]

\* C8: reset_accumulation_textures is idempotent: a reset that follows a reset with
\* no render in between leaves sample_count, the accumulation images (fresh, same
\* size), the swap parity and the frame counter as the first reset left them.
C8_ResetIdempotent ==
    [][(EndsInReset(event.calls) /\ EndsInReset(event'.calls)) =>
           AccumulationState(state') = AccumulationState(state)]_vars

\* A second reset in a row, after frames were rendered.
C8_Witness ==
    /\ event.after_reset
    /\ EndsInReset(event.calls)
    /\ state.frame >= 1
    /\ state.accumulation_swap

\* C9: a press of ArrowUp or ArrowDown changes focal_distance by one step and
\* resets the accumulation (sample_count 0, both accumulation images fresh), with
\* input locked or not; a release of these keys changes neither.
C9_FocalKeyInvalidates ==
    [][(event'.type = "KeyboardInput" /\ event'.args.code \in {"ArrowUp", "ArrowDown"}) =>
           IF event'.args.is_pressed
           THEN /\ state'.focal_distance = state.focal_distance +
                       (IF event'.args.code = "ArrowUp" THEN key_step ELSE -key_step)
                /\ state'.sample_count = 0
                /\ event'.recreated = {"accumulation_texture_a", "accumulation_texture_b"}
                /\ ~state'.accumulation_texture_a.written
                /\ ~state'.accumulation_texture_b.written
                /\ state'.input_locked = state.input_locked
           ELSE /\ state'.focal_distance = state.focal_distance
                /\ state'.sample_count = state.sample_count
                /\ event'.recreated = {}
                /\ AccumulationState(state') = AccumulationState(state)]_vars

\* A press of ArrowDown with input locked and a sample accumulated.
C9_Witness ==
    /\ event.type = "KeyboardInput"
    /\ event.args.code = "ArrowDown"
    /\ event.args.is_pressed
    /\ state.input_locked
    /\ event.before.sample_count >= 1
    /\ state.sample_count = 0

\* C10: a press of ArrowLeft or ArrowRight changes aperture_radius by one step and
\* leaves sample_count, the swap parity and both accumulation images as they were.
C10_ApertureKeyKeepsAccumulation ==
    [][(/\ event'.type = "KeyboardInput"
        /\ event'.args.code \in {"ArrowLeft", "ArrowRight"}
        /\ event'.args.is_pressed) =>
           /\ state'.aperture_radius = state.aperture_radius +
                  (IF event'.args.code = "ArrowLeft" THEN key_step ELSE -key_step)
           /\ state'.sample_count = state.sample_count
           /\ state'.accumulation_swap = state.accumulation_swap
           /\ state'.accumulation_texture_a = state.accumulation_texture_a
           /\ state'.accumulation_texture_b = state.accumulation_texture_b
           /\ event'.recreated = {}]_vars

\* A press of ArrowLeft with two samples accumulated and images written.
C10_Witness ==
    /\ event.type = "KeyboardInput"
    /\ event.args.code = "ArrowLeft"
    /\ event.args.is_pressed
    /\ state.sample_count = 2
    /\ state.accumulation_texture_a.written
    /\ state.aperture_radius = aperture_radius_0 + key_step

----------------------------------------------------------------------------
(* Properties of input handling *)

\* How many times a State method was called in the callback.
CountCalls(calls, method) == Cardinality({i \in DOMAIN calls : calls[i] = method})

\* C11: in one update tick with input unlocked, reset_accumulation_textures is
\* called exactly once if at least one movement key is held, however many are
\* held, and not at all if none is held.
C11_MovedResetsOnce ==
    (event.type = "RedrawRequested" /\ ~state.input_locked) =>
        CountCalls(event.calls, "reset_accumulation_textures") =
            IF state.keys_down \cap MovementKeys # {} THEN 1 ELSE 0

\* A tick with all six movement keys held.
C11_Witness ==
    /\ event.type = "RedrawRequested"
    /\ ~state.input_locked
    /\ state.keys_down = MovementKeys
    /\ event.before.sample_count = 1
    /\ CountCalls(event.calls, "reset_accumulation_textures") = 1

\* What C12 says of a motion event, with the pending delta moved by sign * delta
\* when input is unlocked.
MotionEffect(sign) ==
    event'.type = "MouseMotion" =>
        IF ~state.input_locked
        THEN /\ state'.mouse_delta = <<state.mouse_delta[1] + sign * event'.args[1],
                                       state.mouse_delta[2] + sign * event'.args[2]>>
             /\ state'.sample_count = 0
             /\ event'.recreated = {"accumulation_texture_a", "accumulation_texture_b"}
        ELSE /\ state'.mouse_delta = state.mouse_delta
             /\ state'.sample_count = state.sample_count
             /\ state'.accumulation_texture_a = state.accumulation_texture_a
             /\ state'.accumulation_texture_b = state.accumulation_texture_b
             /\ event'.recreated = {}

\* C12 as stated: a mouse-motion event received while input is unlocked is added to
\* the pending mouse delta and resets the accumulation; one received while input is
\* locked changes neither the pending delta, nor sample_count, nor the images.
C12_MotionAdded == [][MotionEffect(1)]_vars

\* C12 amended: a mouse-motion event received while input is unlocked is subtracted
\* from the pending mouse delta and resets the accumulation; one received while
\* input is locked changes neither the pending delta, nor sample_count, nor the
\* images.
C12_MotionSubtracted == [][MotionEffect(-1)]_vars

\* A second motion event in a row, unlocked, after a frame was accumulated.
C12_Witness ==
    /\ event.type = "MouseMotion"
    /\ ~state.input_locked
    /\ state.mouse_delta = <<0, -800>>
    /\ state.frame >= 1
    /\ state.sample_count = 0

\* C13 as stated: pitch lies strictly inside (-pi/2 + 0.01, pi/2 - 0.01).
C13_PitchInOpenInterval == -pitch_limit < state.pitch /\ state.pitch < pitch_limit

\* C13 amended: pitch lies in the closed interval [-pi/2 + 0.01, pi/2 - 0.01]; the
\* clamp can leave it on either limit.
C13_PitchInClosedInterval == -pitch_limit <= state.pitch /\ state.pitch <= pitch_limit

\* An update that clamped pitch to the lower limit.
C13_Witness ==
    /\ event.type = "RedrawRequested"
    /\ state.pitch = -pitch_limit

----------------------------------------------------------------------------
(* Properties of the scene encoder *)

RECURSIVE ConcatField(_, _)
\* The lists that the meshes hold in one field, one after the other.
ConcatField(meshes, field) ==
    IF meshes = <<>> THEN <<>>
    ELSE meshes[1][field] \o ConcatField(Tail(meshes), field)

\* How many elements the meshes before the j-th hold in one field.
CountBefore(meshes, j, field) == Len(ConcatField(SubSeq(meshes, 1, j - 1), field))

\* Each face indexes within the vertex list and the material list of its own mesh.
WellIndexed(meshes) ==
    \A j \in 1..Len(meshes) : \A k \in 1..Len(meshes[j].faces) :
        /\ \A i \in 1..3 : meshes[j].faces[k].indices[i] \in 0..(Len(meshes[j].vertices) - 1)
        /\ meshes[j].faces[k].material_idx \in 0..(Len(meshes[j].materials) - 1)

\* C14: for baked meshes whose faces index within their own mesh, every encoded
\* face has its three indices below the number of encoded vertices and its
\* material index below the number of encoded materials.
C14_EncodedIndicesInBounds ==
    (encoder.pc = "done" /\ WellIndexed(encoder.baked_meshes)) =>
        \A f \in 1..Len(encoder.gpu_faces) :
            /\ \A i \in 1..3 : encoder.gpu_faces[f].indices[i] \in
                                   0..(Len(encoder.gpu_vertices) - 1)
            /\ encoder.gpu_faces[f].material_idx \in 0..(Len(encoder.gpu_materials) - 1)

\* Three meshes encoded, the last face of which uses the last vertex and the last
\* material.
C14_Witness ==
    /\ encoder.pc = "done"
    /\ Len(encoder.baked_meshes) = 3
    /\ Len(encoder.gpu_faces) >= 3
    /\ encoder.gpu_faces[Len(encoder.gpu_faces)].indices[1] = Len(encoder.gpu_vertices) - 1
    /\ encoder.gpu_faces[Len(encoder.gpu_faces)].material_idx =
           Len(encoder.gpu_materials) - 1

\* C15: every encoded face of the j-th mesh has its local vertex indices plus the
\* vertex count of the meshes before it, and its local material index plus the
\* material count of the meshes before it.
C15_IndicesRebased ==
    encoder.pc = "done" =>
        \A j \in 1..Len(encoder.baked_meshes) :
        \A k \in 1..Len(encoder.baked_meshes[j].faces) :
            LET g == encoder.gpu_faces[CountBefore(encoder.baked_meshes, j, "faces") + k]
                f == encoder.baked_meshes[j].faces[k]
            IN  /\ g.indices = [i \in 1..3 |-> f.indices[i] +
                                   CountBefore(encoder.baked_meshes, j, "vertices")]
                /\ g.material_idx = f.material_idx +
                                   CountBefore(encoder.baked_meshes, j, "materials")

\* The quad (4 vertices, 2 faces, 1 material) followed by a triangle: the face of
\* the triangle has its indices moved by 4 and its material index by 1.
C15_Witness ==
    /\ encoder.pc = "done"
    /\ Len(encoder.baked_meshes) = 2
    /\ Len(encoder.baked_meshes[1].vertices) = 4
    /\ Len(encoder.baked_meshes[1].faces) = 2
    /\ encoder.baked_meshes[2].faces # <<>>
    /\ encoder.baked_meshes[2].faces[1].indices = <<0, 1, 2>>
    /\ encoder.gpu_faces[3].indices = <<4, 5, 6>>
    /\ encoder.gpu_faces[3].material_idx = 1

\* The encoded vertices and materials are the vertices and materials of the meshes,
\* in mesh order, with the same values and without deduplication; there are as many
\* encoded faces as faces; scene_info holds the number of encoded faces and of
\* encoded materials.
VerticesAndMaterialsConcatenated ==
    LET vertices  == ConcatField(encoder.baked_meshes, "vertices")
        faces     == ConcatField(encoder.baked_meshes, "faces")
        materials == ConcatField(encoder.baked_meshes, "materials")
    IN  /\ Len(encoder.gpu_vertices) = Len(vertices)
        /\ \A i \in 1..Len(vertices) : encoder.gpu_vertices[i].position = vertices[i]
        /\ Len(encoder.gpu_faces) = Len(faces)
        /\ Len(encoder.gpu_materials) = Len(materials)
        /\ \A i \in 1..Len(materials) :
               /\ encoder.gpu_materials[i].albedo = materials[i].albedo
               /\ encoder.gpu_materials[i].emission = materials[i].emission
               /\ encoder.gpu_materials[i].roughness = materials[i].roughness
        /\ encoder.scene_info.num_faces = Len(faces)
        /\ encoder.scene_info.num_materials = Len(materials)

\* The normals of an encoded face.
EncodedNormals(g) == <<g.normal0, g.normal1, g.normal2>>

\* C16: the encoded vertex, face and material arrays are the concatenations, in mesh
\* order and with values unchanged, of the vertex, face and material lists of the
\* meshes, without deduplication of materials; scene_info holds the number of
\* encoded faces and of encoded materials.
C16_BuffersAreConcatenations ==
    encoder.pc = "done" =>
        LET faces == ConcatField(encoder.baked_meshes, "faces")
        IN  /\ VerticesAndMaterialsConcatenated
            /\ \A i \in 1..Len(faces) :
                   /\ encoder.gpu_faces[i].indices = faces[i].indices
                   /\ encoder.gpu_faces[i].material_idx = faces[i].material_idx
                   /\ EncodedNormals(encoder.gpu_faces[i]) = faces[i].normals

\* C16 amended: the vertex and material arrays are the concatenations with values
\* unchanged and without deduplication; the face array holds the faces of the
\* meshes in mesh order with their normals unchanged, their vertex indices raised
\* by the vertex count of the meshes before and their material index raised by the
\* material count of the meshes before; scene_info holds the number of encoded
\* faces and of encoded materials.
C16_ConcatenatedFacesRebased ==
    encoder.pc = "done" =>
        /\ VerticesAndMaterialsConcatenated
        /\ \A j \in 1..Len(encoder.baked_meshes) :
           \A k \in 1..Len(encoder.baked_meshes[j].faces) :
               LET g == encoder.gpu_faces[CountBefore(encoder.baked_meshes, j, "faces") + k]
                   f == encoder.baked_meshes[j].faces[k]
                   vertices_before  == CountBefore(encoder.baked_meshes, j, "vertices")
                   materials_before == CountBefore(encoder.baked_meshes, j, "materials")
               IN  /\ EncodedNormals(g) = f.normals
                   /\ \A i \in 1..3 : g.indices[i] - vertices_before = f.indices[i]
                   /\ g.material_idx - materials_before = f.material_idx

\* Three meshes that carry the same material: it is encoded three times, next to
\* the second material of one of them, and the last encoded face has other indices
\* and another material index than the face of the mesh it encodes.
C16_Witness ==
    /\ encoder.pc = "done"
    /\ Len(encoder.baked_meshes) = 3
    /\ Len(encoder.gpu_materials) = 4
    /\ encoder.gpu_materials[1] = encoder.gpu_materials[4]
    /\ encoder.scene_info.num_materials = 4
    /\ encoder.scene_info.num_faces = 4
    /\ encoder.baked_meshes[3].faces # <<>>
    /\ encoder.gpu_faces[4].indices # encoder.baked_meshes[3].faces[1].indices
    /\ encoder.gpu_faces[4].material_idx # encoder.baked_meshes[3].faces[1].material_idx
    /\ EncodedNormals(encoder.gpu_faces[4]) = encoder.baked_meshes[3].faces[1].normals

----------------------------------------------------------------------------
(* Properties of the redraw loop *)

\* C17: when render fails to acquire the surface frame with Lost or Outdated, resize
\* is called with the window's size, the process goes on, and rendering continues:
\* the handler leaves a redraw requested, which is what brings the next render call.
C17_RecoveryContinues ==
    (event.render.called /\ event.render.result \in {"Lost", "Outdated"}) =>
        /\ event.resize.called
        /\ ~exiting
        /\ state.redraw_pending

\* C18: every render call on a configured surface requests another redraw, so that
\* each redraw is followed by another one.
C18_RenderRequestsRedraw ==
    (event.render.called /\ event.render.configured) => state.redraw_pending

\* C19: a render call that presents a frame increments frame and sample_count by
\* exactly 1 each; no other event changes frame, so that it never decreases and is
\* not reset by reset_accumulation_textures or resize.
C19_FrameCounts ==
    [][/\ state'.frame = state.frame + (IF event'.render.presented THEN 1 ELSE 0)
       /\ state'.frame >= state.frame
       /\ event'.render.presented =>
              /\ event'.render.frame_after = event'.render.frame_before + 1
              /\ event'.render.sample_count_after = event'.render.sample_count_before + 1
              /\ state'.sample_count = event'.render.sample_count_after]_vars

\* A second frame presented after an invalidation: frame is 2, sample_count is 1.
C19_Witness ==
    /\ event.render.presented
    /\ event.render.frame_after = 2
    /\ event.render.sample_count_after = 1
    /\ state.frame = 2

\* C20: a render call that fails to acquire the surface frame with an error other
\* than Lost or Outdated does not end the process and skips the frame: nothing is
\* presented, resize is not called, and frame and sample_count are not incremented.
C20_OtherErrorsSkipFrame ==
    (event.render.called /\ event.render.result \notin {"Ok", "Lost", "Outdated"}) =>
        /\ ~exiting
        /\ ~event.render.presented
        /\ ~event.resize.called
        /\ event.render.frame_after = event.render.frame_before
        /\ event.render.sample_count_after = event.render.sample_count_before
        /\ state.frame = event.render.frame_before
        /\ state.sample_count = event.before.sample_count
        /\ "resize" \notin {event.calls[i] : i \in DOMAIN event.calls}

\* A frame skipped on OutOfMemory after a frame was presented.
C20_Witness ==
    /\ event.render.called
    /\ event.render.result = "OutOfMemory"
    /\ event.render.frame_before = 1
    /\ event.render.sample_count_before = 1
    /\ state.sample_count = 1

----------------------------------------------------------------------------
(* Properties of the uniforms of a dispatch *)

\* The uniforms of the dispatch of a step are frame and sample_count as render found
\* them, and sample_count is `earlier`, or 0 when update has just invalidated.
DispatchUniforms(earlier) ==
    event'.render.dispatch.dispatched =>
        /\ event'.render.dispatch.rand_seed = event'.render.frame_before
        /\ event'.render.dispatch.sample_count = event'.render.sample_count_before
        /\ event'.render.dispatch.sample_count =
               IF CountCalls(event'.calls, "reset_accumulation_textures") > 0
               THEN 0 ELSE earlier

\* C21: the uniforms written for a dispatch are frame and sample_count as they are
\* before that render's increment; the first dispatch after an invalidation or a
\* non-zero resize is given sample_count 0 and the k-th consecutive one k-1, the
\* number of dispatches before it.
C21_UniformsCountDispatches == [][DispatchUniforms(render_calls)]_vars

\* C21, amended: the k-th consecutive dispatch is given the number of the dispatches
\* before it whose frame was presented.
C21_UniformsCountPresented == [][DispatchUniforms(presented_calls)]_vars

\* The second dispatch after an invalidation that followed a presented frame: the
\* seed is 2, sample_count is 1.
C21_Witness ==
    /\ event.render.dispatch.dispatched
    /\ event.render.dispatch.rand_seed = 2
    /\ event.render.dispatch.sample_count = 1
    /\ render_calls = 2

----------------------------------------------------------------------------
(* Properties of the input lock and the pending mouse delta *)

\* A redraw (update, then render) that runs while input is locked leaves camera_pos
\* alone and does not call reset_accumulation_textures; it leaves yaw and pitch
\* alone if `rotation_frozen`.
LockedUpdate(rotation_frozen) ==
    (event'.type = "RedrawRequested" /\ state.input_locked) =>
        /\ state'.camera_pos = state.camera_pos
        /\ CountCalls(event'.calls, "reset_accumulation_textures") = 0
        /\ rotation_frozen => (state'.yaw = state.yaw /\ state'.pitch = state.pitch)

\* C22: while input is locked, update leaves yaw, pitch and camera_pos as they were
\* and does not invalidate, whatever keys are held and whatever mouse delta is
\* pending.
C22_LockedUpdateFreezesCamera == [][LockedUpdate(TRUE)]_vars

\* C22, amended: yaw and pitch are left as they were when no mouse delta is pending.
C22_LockedUpdateFreezesPosition == [][LockedUpdate(state.mouse_delta = <<0, 0>>)]_vars

\* A redraw has run with input locked and a movement key held, after the camera was
\* turned, and the camera has not moved.
C22_Witness ==
    /\ event.type = "RedrawRequested"
    /\ state.input_locked
    /\ state.keys_down \cap MovementKeys # {}
    /\ state.yaw # 0
    /\ state.camera_pos = <<0, 0, 0>>

\* The pending delta is sign times the motion received since update last ran, and a
\* redraw, which begins with update, has left it at (0, 0).
PendingDelta(sign) ==
    /\ state.mouse_delta = <<sign * received[1], sign * received[2]>>
    /\ event.type = "RedrawRequested" => state.mouse_delta = <<0, 0>>

\* C23: the pending mouse delta holds the sum of all motion received while unlocked
\* since the previous update call, and every update call leaves it at exactly (0, 0).
C23_PendingIsSum == PendingDelta(1)

\* C23, amended: the pending mouse delta holds the negated sum.
C23_PendingIsNegatedSum == PendingDelta(-1)

\* Two motion events, (1, 781) and (0, -400), are pending.
C23_Witness ==
    /\ event.type = "MouseMotion"
    /\ received = <<1, 381>>
    /\ state.mouse_delta = <<-1, -381>>

\* update turns the camera by sign times the motion received since it last ran:
\* yaw by sign * sum of dx * sensitivity, pitch likewise and then clamped.
Turned(sign) ==
    event'.type = "RedrawRequested" =>
        /\ state'.yaw = state.yaw + sign * received[1] * mouse_sensitivity
        /\ state'.pitch = clamp(state.pitch + sign * received[2] * mouse_sensitivity,
                                -pitch_limit, pitch_limit)

\* C24: for the motion events received since the previous update, update changes
\* yaw by -(sum of dx) * sensitivity and pitch by -(sum of dy) * sensitivity before
\* clamping: motion with positive dx decreases yaw.
C24_MotionDecreasesYaw == [][Turned(-1)]_vars

\* C24, amended: yaw changes by +(sum of dx) * sensitivity and pitch by +(sum of dy)
\* * sensitivity: motion with positive dx increases yaw.
C24_MotionIncreasesYaw == [][Turned(1)]_vars

\* update has applied two motion events, (1, 781) and (0, -400), at once.
C24_Witness ==
    /\ event.type = "RedrawRequested"
    /\ state.yaw = mouse_sensitivity
    /\ state.pitch = 381 * mouse_sensitivity
    /\ state.mouse_delta = <<0, 0>>

----------------------------------------------------------------------------
(* Properties of camera movement *)

\* 1 if the key is held and 0 if not.
Held(s, key) == IF key \in s.keys_down THEN 1 ELSE 0

\* The displacement of one tick of dt milliseconds with the basis of State s: along
\* forward for forward less back, along right for strafe-right less strafe-left,
\* along up for up less down, each times speed times dt.
Displacement(s, dt) ==
    VAdd(VAdd(VScale(s.forward, (Held(s, "KeyW") - Held(s, "KeyS")) * speed * dt),
              VScale(s.right, (Held(s, "KeyD") - Held(s, "KeyA")) * speed * dt)),
         VScale(s.up, (Held(s, "ShiftLeft") - Held(s, "Space")) * speed * dt))

\* C25: with input unlocked, one update changes camera_pos by the sum over the held
\* movement keys of the key's direction times speed times dt; opposite keys held
\* together cancel and keys not held contribute nothing; the forward key held alone
\* with dt = 0.5 and forward = (0, 1, 0) moves the camera by exactly (0, 1.0, 0).
C25_MovesByHeldKeys ==
    [][(event'.type = "RedrawRequested" /\ ~state.input_locked) =>
          /\ state'.camera_pos = VAdd(state.camera_pos, Displacement(state', event'.args.dt))
          /\ (/\ state.keys_down = {"KeyW"}
              /\ event'.args.dt = 500
              /\ state'.forward = <<0, 1000, 0>>) =>
                 state'.camera_pos = VAdd(state.camera_pos, <<0, 1000, 0>>)]_vars

\* After one tick the camera is at (-1, 0, -1) with strafe-left and down held, and
\* forward and back held together.
C25_Witness ==
    /\ event.type = "RedrawRequested"
    /\ state.keys_down = {"KeyW", "KeyS", "KeyA", "Space"}
    /\ state.camera_pos = <<-1000, 0, -1000>>

----------------------------------------------------------------------------
(* Properties of the held keys *)

\* C26: the held-key set is the set of keys whose most recent event was a press. It
\* is empty before the first key event; a press puts the key in (a repeated press
\* changes nothing), a release takes it out, for every key and also while input is
\* locked; and every other key stays as it was.
C26_HeldKeysFollowEvents ==
    /\ state.keys_down = {}
    /\ [][event'.type = "KeyboardInput" =>
             /\ (event'.args.code \in state'.keys_down) = event'.args.is_pressed
             /\ state'.keys_down \ {event'.args.code} = state.keys_down \ {event'.args.code}]_vars

\* A key was pressed while input was locked and while the lock key and a focal
\* key were still held, and is in the set.
C26_Witness ==
    /\ event.type = "KeyboardInput"
    /\ event.args = [code |-> "KeyW", is_pressed |-> TRUE]
    /\ state.input_locked
    /\ state.keys_down = {"KeyL", "ArrowUp", "KeyW"}

----------------------------------------------------------------------------
(* Properties of load_glb *)

\* The primitives of the nodes load_glb has gone through, in document order.
PrimitivesRead ==
    ConcatField(SelectSeq(SubSeq(loader.document.nodes, 1, loader.done),
                          LAMBDA nd : nd.has_mesh),
                "primitives")

\* C27: the mesh of an indexed primitive with n indices has floor(n/3) faces and
\* its j-th face (from 0) has indices 3j, 3j+1, 3j+2 of the index list; the mesh of
\* a primitive without indices and with v vertices has floor(v/3) faces and its j-th
\* face has the vertices 3j, 3j+1, 3j+2; a trailing group of one or two gives no face.
C27_Triangulation ==
    /\ Len(loader.meshes) = Len(PrimitivesRead)
    /\ \A k \in 1..Len(loader.meshes) :
        LET prim  == PrimitivesRead[k]
            faces == loader.meshes[k].faces
            n     == IF prim.has_indices THEN Len(prim.indices) ELSE Len(prim.positions)
        IN  /\ Len(faces) = n \div 3
            /\ \A j \in 0..(Len(faces) - 1) :
                   faces[j + 1].indices =
                       IF prim.has_indices
                       THEN <<prim.indices[3 * j + 1], prim.indices[3 * j + 2],
                              prim.indices[3 * j + 3]>>
                       ELSE <<3 * j, 3 * j + 1, 3 * j + 2>>

\* load_glb has returned three meshes: the seven indices 0 1 2 2 4 3 1 gave two
\* faces, the second of 2 4 3; six vertices gave two faces and five vertices one.
C27_Witness ==
    /\ loader.pc = "done"
    /\ Len(loader.meshes) = 3
    /\ PrimitivesRead[1].has_indices /\ Len(PrimitivesRead[1].indices) = 7
    /\ Len(loader.meshes[1].faces) = 2
    /\ loader.meshes[1].faces[2].indices = <<2, 4, 3>>
    /\ ~PrimitivesRead[2].has_indices /\ Len(loader.meshes[2].vertices) = 6
    /\ Len(loader.meshes[2].faces) = 2
    /\ loader.meshes[2].faces[2].indices = <<3, 4, 5>>
    /\ Len(loader.meshes[3].vertices) = 5
    /\ Len(loader.meshes[3].faces) = 1

\* C28: once the materials are read, every mesh that is loaded holds the same
\* material list, which is not empty: the materials of the document in order, or
\* one material of albedo (1,1,1), emission (0,0,0) and roughness 1 if the document
\* declares none; the material index of every face is that of its primitive, or 0
\* if the primitive has none, and is within the list.
C28_GlobalMaterials ==
    loader.pc # "materials" =>
        LET declared == loader.document.materials
        IN  /\ loader.global_materials # <<>>
            /\ IF declared = <<>>
               THEN loader.global_materials =
                        <<[albedo |-> <<1000, 1000, 1000>>, emission |-> <<0, 0, 0>>,
                           roughness |-> 1000]>>
               ELSE /\ Len(loader.global_materials) = Len(declared)
                    /\ \A i \in 1..Len(declared) :
                        /\ \A c \in 1..3 : loader.global_materials[i].albedo[c] =
                                               declared[i].base_color_factor[c]
                        /\ loader.global_materials[i].roughness =
                               declared[i].roughness_factor
            /\ \A k \in 1..Len(loader.meshes) :
                /\ loader.meshes[k].materials = loader.global_materials
                /\ \A j \in 1..Len(loader.meshes[k].faces) :
                    /\ loader.meshes[k].faces[j].material_idx =
                           IF PrimitivesRead[k].has_material
                           THEN PrimitivesRead[k].material ELSE 0
                    /\ loader.meshes[k].faces[j].material_idx \in
                           0..(Len(loader.meshes[k].materials) - 1)

\* A document without materials has been loaded into four meshes with faces, each
\* holding the one default material.
C28_Witness ==
    /\ loader.pc = "done"
    /\ loader.document.materials = <<>>
    /\ Len(loader.meshes) = 4
    /\ \A k \in 1..4 : /\ Len(loader.meshes[k].materials) = 1
                       /\ loader.meshes[k].faces # <<>>
                       /\ loader.meshes[k].faces[1].material_idx = 0

----------------------------------------------------------------------------
(* Properties of baking *)

\* The three rotations of the sample nodes written out: none, a third of a turn
\* about the diagonal (x -> y -> z -> x), half a turn about the x axis.
Rotated(q, v) ==
    CASE q = <<0, 0, 0, 2>> -> v
      [] q = <<1, 1, 1, 1>> -> <<v[3], v[1], v[2]>>
      [] q = <<2, 0, 0, 0>> -> <<v[1], -v[2], -v[3]>>

\* scale (.) v, both in thousandths.
Scaled(s, v) == <<(s[1] * v[1]) \div 1000, (s[2] * v[2]) \div 1000, (s[3] * v[3]) \div 1000>>

\* C29: every vertex of every baked mesh is the rotation of the scaled local vertex,
\* plus the position: world_v = rotation . (scale (.) local_v) + position.
C29_ScaleRotateTranslate ==
    \A j \in 1..Len(world.baked_meshes) :
        LET local == world.meshes[j]
            baked == world.baked_meshes[j]
        IN  /\ Len(baked.vertices) = Len(local.vertices)
            /\ \A i \in 1..Len(local.vertices) :
                   LET turned == Rotated(local.rotation, Scaled(local.scale, local.vertices[i]))
                   IN  baked.vertices[i] = <<turned[1] + local.position[1],
                                             turned[2] + local.position[2],
                                             turned[3] + local.position[3]>>

\* A mesh scaled by (2, 1, -1), turned a third of a turn and moved to (1, 2, 3) is
\* baked: its vertex (0, 0.5, -0.25) is at (1.25, 2, 3.5).
C29_Witness ==
    /\ world.baked_meshes # <<>>
    /\ world.meshes[1].scale = <<2000, 1000, -1000>>
    /\ world.meshes[1].rotation = <<1, 1, 1, 1>>
    /\ world.meshes[1].position = <<1000, 2000, 3000>>
    /\ world.meshes[1].vertices[1] = <<0, 500, -250>>
    /\ world.baked_meshes[1].vertices[1] = <<1250, 2000, 3500>>

\* C30: the edges of every baked face with indices (i0, i1, i2) are
\* world_v[i1] - world_v[i0] and world_v[i2] - world_v[i0] over the vertices of the
\* baked mesh; they are not the edges the unbaked face holds.
C30_EdgesFromBakedVertices ==
    \A j \in 1..Len(world.baked_meshes) :
        LET world_v == world.baked_meshes[j].vertices
        IN  \A k \in 1..Len(world.baked_meshes[j].faces) :
                LET f  == world.baked_meshes[j].faces[k]
                    i0 == f.indices[1] + 1
                    i1 == f.indices[2] + 1
                    i2 == f.indices[3] + 1
                IN  /\ \A c \in 1..3 :
                        /\ f.edges[1][c] = world_v[i1][c] - world_v[i0][c]
                        /\ f.edges[2][c] = world_v[i2][c] - world_v[i0][c]
                    /\ f.edges # world.meshes[j].faces[k].edges

\* The second mesh of the world is turned and scaled; its first face, whose unbaked
\* vertices are (1, 0.5, -0.25) apart and whose unbaked edges are zero, is baked
\* with the edges (0.25, 2, 0.5) and (0.5, 4, 1).
C30_Witness ==
    /\ Len(world.baked_meshes) >= 2
    /\ world.meshes[2].rotation = <<1, 1, 1, 1>>
    /\ world.meshes[2].faces[1].indices = <<0, 1, 2>>
    /\ world.meshes[2].faces[1].edges = <<<<0, 0, 0>>, <<0, 0, 0>>>>
    /\ world.meshes[2].vertices[2][1] - world.meshes[2].vertices[1][1] = 1000
    /\ world.baked_meshes[2].faces[1].edges = <<<<250, 2000, 500>>, <<500, 4000, 1000>>>>

\* C31: a call of bake_meshes leaves the unbaked list as it was and leaves one baked
\* mesh per unbaked mesh, in the same order, whatever the baked list held before;
\* a call right after it changes nothing; a mesh without faces is baked into a
\* mesh without faces whose vertices are transformed.
C31_BakeIdempotent ==
    [][world'.meshes = world.meshes =>
          /\ Len(world'.baked_meshes) = Len(world.meshes)
          /\ world'.baked_meshes = bake_meshes([world EXCEPT !.baked_meshes = <<>>]).baked_meshes
          /\ bake_meshes(world') = world'
          /\ \A j \in 1..Len(world.meshes) :
                LET local == world.meshes[j]
                    baked == world'.baked_meshes[j]
                IN  /\ baked.materials = local.materials
                    /\ Len(baked.vertices) = Len(local.vertices)
                    /\ Len(baked.faces) = Len(local.faces)
                    /\ \A k \in 1..Len(local.faces) :
                           baked.faces[k].indices = local.faces[k].indices
                    /\ local.faces = <<>> =>
                           \A i \in 1..Len(local.vertices) :
                               baked.vertices[i] =
                                   VAdd(Rotated(local.rotation,
                                                Scaled(local.scale, local.vertices[i])),
                                        local.position)]_vars

\* A world of three meshes is baked into three meshes, the first with faces, the
\* last one without faces and with its vertex (40, 0.5, -0.25) at (40, 0.5, 0.25).
C31_Witness ==
    /\ Len(world.meshes) = 3
    /\ Len(world.baked_meshes) = 3
    /\ world.meshes[3].faces = <<>>
    /\ world.baked_meshes[3].faces = <<>>
    /\ world.meshes[3].vertices[1] = <<40000, 500, -250>>
    /\ world.baked_meshes[3].vertices[1] = <<40000, 500, 250>>
    /\ world.baked_meshes[1].faces # <<>>

----------------------------------------------------------------------------
(* Properties of the accumulation over consecutive dispatches *)

\* The render target and both accumulation images have the configured resolution.
ImagesAtResolution(s) ==
    \A tex \in {s.render_texture, s.accumulation_texture_a, s.accumulation_texture_b} :
        /\ tex.width = s.config.width
        /\ tex.height = s.config.height

\* C32: after construction and after every callback the render target and both
\* accumulation images have the configured resolution (W, H), and every dispatch is
\* over a grid of ceil(W/8) x ceil(H/8) work groups:
\* 8 * grid_x >= W > 8 * (grid_x - 1), and likewise for H.
C32_GridCoversImages ==
    /\ ImagesAtResolution(state)
    /\ [][/\ ImagesAtResolution(state')
          /\ event'.render.dispatch.dispatched =>
                /\ 8 * event'.render.dispatch.dispatch_x >= state.config.width
                /\ state.config.width > 8 * (event'.render.dispatch.dispatch_x - 1)
                /\ 8 * event'.render.dispatch.dispatch_y >= state.config.height
                /\ state.config.height > 8 * (event'.render.dispatch.dispatch_y - 1)]_vars

\* A dispatch at 8 x 9: one work group across, two down.
C32_Witness ==
    /\ event.render.dispatch.dispatched
    /\ ~event.resize.called
    /\ state.config = [width |-> 8, height |-> 9]
    /\ state.accumulation_texture_a.width = 8
    /\ state.accumulation_texture_b.height = 9
    /\ event.render.dispatch.dispatch_x = 1
    /\ event.render.dispatch.dispatch_y = 2

\* The compute dispatches submitted since the accumulation images were last
\* recreated.  A render call submits a dispatch exactly when the surface is
\* configured; the surface is configured by a resize with both dimensions non-zero,
\* which recreates the images, and stays configured.
DispatchesSinceRecreation == IF state.is_surface_configured THEN render_calls ELSE 0

\* C33: sample_count equals the number of compute dispatches submitted since the
\* accumulation images were last recreated, and the sample_count uniform of a
\* dispatch equals the number of dispatches before it since then, which is the
\* number of samples accumulated in the image it reads.
C33_SampleCountIsDispatches ==
    /\ state.sample_count = DispatchesSinceRecreation
    /\ (event.render.dispatch.dispatched /\ DispatchesSinceRecreation > 0) =>
           event.render.dispatch.sample_count = DispatchesSinceRecreation - 1

\* Two dispatches have been submitted into the same images, the first of them in a
\* render call whose acquisition failed: sample_count is 1 and was 0 at both.
C33_Witness ==
    /\ state.is_surface_configured
    /\ render_calls = 2
    /\ presented_calls = 1
    /\ event.render.dispatch.dispatched
    /\ event.render.result = "Ok"
    /\ event.render.dispatch.sample_count = 0
    /\ state.sample_count = 1

\* C34: a dispatch that is given a sample_count greater than 0 has a dispatch before
\* it, and renders the camera position, yaw, pitch, focal distance and resolution
\* that the dispatch before it rendered.
C34_AccumulatesOneView ==
    [][(event'.render.dispatch.dispatched /\ event'.render.dispatch.sample_count > 0) =>
          /\ last_dispatch.dispatched
          /\ last_dispatch'.view = last_dispatch.view]_vars

\* After a focal-distance key, mouse motion and a resize to 8 x 9 had changed the
\* view, a second dispatch in a row is given sample_count 1.
C34_Witness ==
    /\ event.render.dispatch.dispatched
    /\ event.render.dispatch.sample_count = 1
    /\ last_dispatch.view.focal_distance = focal_distance_0 + key_step
    /\ last_dispatch.view.yaw # 0
    /\ last_dispatch.view.width = 8
    /\ ~last_dispatch.recreated_before

\* C35: of two consecutive dispatches, the later reads the image the earlier wrote
\* when the accumulation images were not recreated between them, and reads an image
\* that no dispatch has written when an invalidation or a resize to a non-zero size
\* recreated them in between.
C35_PingPongChain ==
    [][(event'.render.dispatch.dispatched /\ last_dispatch.dispatched) =>
          IF last_dispatch'.recreated_before
          THEN last_dispatch'.input_fresh
          ELSE /\ last_dispatch'.input = last_dispatch.output
               /\ ~last_dispatch'.input_fresh]_vars

\* A dispatch that reads image B, which the dispatch before it wrote.
C35_Witness ==
    /\ last_dispatch.dispatched
    /\ event.render.dispatch.dispatched
    /\ ~last_dispatch.recreated_before
    /\ last_dispatch.input = "b"
    /\ ~last_dispatch.input_fresh
    /\ render_calls = 2

\* A dispatch that follows another after an invalidation without a resize: the
\* parity is still set, and the image B it reads is a new one.
C35_WitnessInvalidated ==
    /\ last_dispatch.dispatched
    /\ event.render.dispatch.dispatched
    /\ ~event.resize.called
    /\ last_dispatch.recreated_before
    /\ last_dispatch.input = "b"
    /\ last_dispatch.input_fresh
    /\ state.config.width = 9

\* C36: the frame counter written as the random seed of a dispatch is strictly
\* greater than the one written at the dispatch before it, also when the render
\* call of the dispatch before returned an error after dispatching.
C36_SeedsIncrease ==
    [][(event'.render.dispatch.dispatched /\ last_dispatch.dispatched) =>
          last_dispatch'.rand_seed > last_dispatch.rand_seed]_vars

\* Two dispatches in a row that were both given seed 0: of the two render calls
\* only the second presented its frame.
C36_Witness ==
    /\ last_dispatch.dispatched
    /\ event.render.dispatch.dispatched
    /\ event.render.result = "Ok"
    /\ render_calls = 2
    /\ presented_calls = 1
    /\ last_dispatch.rand_seed = 0
    /\ state.frame = 1


\* What invalidate() is said to leave alone: the swap parity, the frame counter, the
\* size of the images, the camera and the input state.
KeptByInvalidate(s) ==
    [accumulation_swap |-> s.accumulation_swap,
     frame             |-> s.frame,
     config            |-> s.config,
     render_texture    |-> s.render_texture,
     size_a            |-> <<s.accumulation_texture_a.width, s.accumulation_texture_a.height>>,
     size_b            |-> <<s.accumulation_texture_b.width, s.accumulation_texture_b.height>>,
     camera            |-> <<s.camera_pos, s.yaw, s.pitch, s.forward, s.right, s.up,
                             s.focal_distance, s.aperture_radius>>,
     input             |-> <<s.keys_down, s.mouse_delta, s.input_locked>>]

NonZeroResize(e) == e.resize.called /\ e.resize.width > 0 /\ e.resize.height > 0

\* C37: a resize with both dimensions non-zero leaves the swap parity false, and the
\* parity stays false until a dispatch, which then reads image A and writes image B;
\* a callback that ends in reset_accumulation_textures (mouse motion, a
\* focal-distance key) changes none of the swap parity, the frame counter, the image
\* size, the camera and the input state, apart from the pending mouse delta, the
\* focal distance or the key set that the handler itself sets before the call.
C37_ResizeResetsParity ==
    [][/\ NonZeroResize(event') => ~state'.accumulation_swap
       /\ (~NonZeroResize(event') /\ ~event'.render.dispatch.dispatched) =>
              state'.accumulation_swap = state.accumulation_swap
       /\ (event'.render.dispatch.dispatched /\ ~state.accumulation_swap) =>
              /\ event'.render.dispatch.input_view = event'.render.dispatch.a_view
              /\ event'.render.dispatch.output_view = event'.render.dispatch.b_view
       /\ (event'.type = "MouseMotion" /\ EndsInReset(event'.calls)) =>
              KeptByInvalidate([state' EXCEPT !.mouse_delta = state.mouse_delta])
                  = KeptByInvalidate(state)
       /\ (event'.type = "KeyboardInput" /\ EndsInReset(event'.calls)) =>
              KeptByInvalidate([state' EXCEPT !.focal_distance = state.focal_distance,
                                              !.keys_down = state.keys_down])
                  = KeptByInvalidate(state)]_vars

\* The first dispatch after a resize to 8 x 9 that followed a presented frame: it
\* reads image A and writes image B, both new.
C37_Witness ==
    /\ last_dispatch.dispatched
    /\ event.render.dispatch.dispatched
    /\ ~event.resize.called
    /\ last_dispatch.recreated_before
    /\ last_dispatch.view.width = 8
    /\ last_dispatch.rand_seed = 1
    /\ last_dispatch.input = "a"
    /\ last_dispatch.output = "b"
    /\ last_dispatch.input_fresh

====
